---- MODULE Spec2Model ----
(***************************************************************************)
(* State-machine model of the stereo session for ISIS imagery              *)
(* (StereoSessionIsis.cc) and of the lrojitreg offset tool with its        *)
(* RunningStandardDeviation accumulator (lrojitreg.cc).                    *)
(*                                                                         *)
(* Eight specifications share the variables below; each one moves only     *)
(* the variables of its own component and leaves the others parked:        *)
(*   SpecStats    RunningStandardDeviation: Push / Clear                   *)
(*   SpecDedupe   remove_duplicates applied to bounded inputs              *)
(*   SpecSession  pre_preprocessing_hook and determine_image_alignment     *)
(*   SpecStages   one session through preprocessing, correlation,          *)
(*                pre_filtering_hook and pre_pointcloud_hook               *)
(*   SpecOffset   determineShifts and main of lrojitreg                    *)
(*   SpecRace     two concurrent calls of pre_preprocessing_hook           *)
(*   SpecCrop     the crop window computed by determineShifts              *)
(*   SpecCamera   camera_model                                             *)
(***************************************************************************)
EXTENDS Integers, Sequences, FiniteSets, TLC

VARIABLES
  acc,        \* the RunningStandardDeviation object under study
  ref,        \* a second object, constructed when acc was last cleared
  hist,       \* values pushed since construction / the last Clear()
  cleared,    \* TRUE once Clear() has been called on acc
  preHist,    \* values pushed to acc before the last Clear()
  ip1,        \* remove_duplicates: first vector (in/out parameter)
  ip2,        \* remove_duplicates: second vector (in/out parameter)
  in1,        \* remove_duplicates: ip1 as passed by the caller
  in2,        \* remove_duplicates: ip2 as passed by the caller
  dpc,        \* remove_duplicates: "call" before, "ret" after the call
  files,      \* the file system: file name -> content or Absent
  pc,         \* per process: position in pre_preprocessing_hook
  loc,        \* per process: local variables of the running hook
  log,        \* per process: operations performed by the running call
  startFiles, \* per process: the file system when the call started
  setting,    \* stereo_settings().keypoint_alignment
  epoch,      \* number of external deletions so far
  done,       \* records of the completed calls, oldest first
  stage,      \* the stage of the session the driver has reached
  geo,        \* the georeference transforms the two input images carry
  mask_flatfield, \* stereo_settings().mask_flatfield
  io,         \* input_file / output_file of the filtering and point cloud hooks
  params,     \* determineShifts: the Parameters and the files they name
  opc,        \* determineShifts: position in the function
  est,        \* determineShifts: local variables
  out,        \* determineShifts: the std::ofstream of the row log and its file
  result,     \* determineShifts: return value and the caller's dX, dY
  trace,      \* determineShifts: operations performed so far
  driver,     \* main of lrojitreg: position and the offset lines printed
  crop,       \* the crop window of determineShifts: inputs and result
  cam         \* camera_model: arguments, descriptor file and result

statsVars   == <<acc, ref, hist, cleared, preHist>>
dedupeVars  == <<ip1, ip2, in1, in2, dpc>>
sessionVars == <<files, pc, loc, log, startFiles, setting, epoch, done>>
stagesVars  == <<stage, geo, mask_flatfield, io>>
offsetVars  == <<params, opc, est, out, result, trace>>
mainVars    == <<driver>>
cropVars    == <<crop>>
cameraVars  == <<cam>>
vars        == <<statsVars, dedupeVars, sessionVars, stagesVars, offsetVars,
                 mainVars, cropVars, cameraVars>>

(***************************************************************************)
(* Bounds of the model.                                                    *)
(***************************************************************************)
MaxPush == 3      \* pushes between two Clear() calls (beyond the example)
MaxIp == 3        \* length of the vectors given to remove_duplicates
MaxCalls == 2     \* invocations of pre_preprocessing_hook
MaxDeletes == 1   \* external deletions of cache artifacts
Cols == 3         \* width of the two input images, in pixels
Rows == 2         \* height of the two input images, in pixels
MaxRows == 2      \* height of the images lrojitreg correlates
MaxDim == 4       \* width of the images whose crop window is computed
MaxDimRows == 2   \* height of the images whose crop window is computed

(***************************************************************************)
(* Exact rational arithmetic: <<n, d>> with d > 0 in lowest terms.  NaN    *)
(* (denominator 0) stands for the result of a division by zero.            *)
(***************************************************************************)
NaN == <<0, 0>>

Abs(n) == IF n < 0 THEN -n ELSE n

RECURSIVE GCD(_, _)
GCD(a, b) == IF b = 0 THEN a ELSE GCD(b, a % b)

Norm(n, d) ==
  LET s == IF d < 0 THEN -1 ELSE 1
      g == GCD(Abs(n), Abs(d))
  IN  <<(s * n) \div g, (s * d) \div g>>

Q(n) == <<n, 1>>

RAdd(a, b) ==
  IF a = NaN \/ b = NaN THEN NaN
  ELSE Norm(a[1] * b[2] + b[1] * a[2], a[2] * b[2])

RSub(a, b) ==
  IF a = NaN \/ b = NaN THEN NaN
  ELSE Norm(a[1] * b[2] - b[1] * a[2], a[2] * b[2])

RMul(a, b) ==
  IF a = NaN \/ b = NaN THEN NaN
  ELSE Norm(a[1] * b[1], a[2] * b[2])

\* a / k for an int k converted to double
RDivInt(a, k) ==
  IF a = NaN \/ k = 0 THEN NaN ELSE Norm(a[1], a[2] * k)

IsSquare(n) == \E r \in 0..n : r * r = n

ISqrt(n) == CHOOSE r \in 0..n : r * r = n

\* sqrt(): exact on squares of rationals, otherwise the surd <<n, d, 2>>
\* (the square root of n/d); NaN on NaN or a negative argument.
Sqrt(q) ==
  IF q = NaN THEN NaN
  ELSE IF q[1] < 0 THEN NaN
  ELSE IF IsSquare(q[1]) /\ IsSquare(q[2]) THEN <<ISqrt(q[1]), ISqrt(q[2])>>
  ELSE <<q[1], q[2], 2>>

(***************************************************************************)
(* RunningStandardDeviation (lrojitreg.cc).                                *)
(***************************************************************************)
\* Values the four double members may hold while never assigned.
Garbage == {Q(0), <<-7, 2>>}

\* The pushed samples.
Values == {0, 1, 3}

\* The sample sequence of the worked example.
Example == <<2, 4, 4, 4, 5, 5, 7, 9>>

\* RunningStandardDeviation(): only m_n is initialised.
Constructed ==
  { [m_n |-> 0, m_oldM |-> a, m_newM |-> b, m_oldS |-> c, m_newS |-> d] :
      a \in Garbage, b \in Garbage, c \in Garbage, d \in Garbage }

\* An accumulator that is not in use.
ParkedStats ==
  [m_n |-> 0, m_oldM |-> Q(0), m_newM |-> Q(0), m_oldS |-> Q(0), m_newS |-> Q(0)]

ClearKeepsCount(a) == a

ClearOp(a) == [a EXCEPT !.m_n = 0]

PushSquaresOldMean(a, x) ==
  LET n == a.m_n + 1
  IN  IF n = 1
      THEN [a EXCEPT !.m_n = n, !.m_oldM = Q(x), !.m_newM = Q(x),
                     !.m_oldS = Q(0)]
      ELSE LET newM == RAdd(a.m_oldM, RDivInt(RSub(Q(x), a.m_oldM), n))
               newS == RAdd(a.m_oldS,
                            RMul(RSub(Q(x), a.m_oldM), RSub(Q(x), a.m_oldM)))
           IN  [m_n |-> n, m_oldM |-> newM, m_newM |-> newM,
                m_oldS |-> newS, m_newS |-> newS]

PushOp(a, x) ==
  LET n == a.m_n + 1
  IN  IF n = 1
      THEN [a EXCEPT !.m_n = n, !.m_oldM = Q(x), !.m_newM = Q(x),
                     !.m_oldS = Q(0)]
      ELSE LET newM == RAdd(a.m_oldM, RDivInt(RSub(Q(x), a.m_oldM), n))
               newS == RAdd(a.m_oldS,
                            RMul(RSub(Q(x), a.m_oldM), RSub(Q(x), newM)))
           IN  [m_n |-> n, m_oldM |-> newM, m_newM |-> newM,
                m_oldS |-> newS, m_newS |-> newS]

NumDataValues(a) == a.m_n

Mean(a) == IF a.m_n > 0 THEN a.m_newM ELSE Q(0)

VarianceGuardsZeroOnly(a) ==
  IF a.m_n > 0 THEN RDivInt(a.m_newS, a.m_n - 1) ELSE Q(0)

Variance(a) == IF a.m_n > 1 THEN RDivInt(a.m_newS, a.m_n - 1) ELSE Q(0)

StandardDeviation(a) == Sqrt(Variance(a))

IsPrefix(s, t) == Len(s) <= Len(t) /\ SubSeq(t, 1, Len(s)) = s

\* The samples that may follow the sequence h: any of Values up to MaxPush
\* samples, and the next sample of the worked example.
NextSamples(h) ==
  (IF Len(h) < MaxPush THEN Values ELSE {}) \cup
  (IF Len(h) < Len(Example) /\ IsPrefix(h, Example)
   THEN {Example[Len(h) + 1]} ELSE {})

\* x is pushed to both objects.
Push(x) ==
  /\ x \in NextSamples(hist)
  /\ acc' = PushOp(acc, x)
  /\ ref' = PushOp(ref, x)
  /\ hist' = Append(hist, x)
  /\ UNCHANGED <<cleared, preHist>>
  /\ UNCHANGED <<dedupeVars, sessionVars, stagesVars, offsetVars,
               cameraVars, cropVars, mainVars>>

\* acc.Clear(); ref is replaced by a newly constructed object.
Clear ==
  /\ acc' = ClearOp(acc)
  /\ ref' \in Constructed
  /\ preHist' = hist
  /\ hist' = <<>>
  /\ cleared' = TRUE
  /\ UNCHANGED <<dedupeVars, sessionVars, stagesVars, offsetVars,
               cameraVars, cropVars, mainVars>>

StatsNext ==
  \/ \E x \in Values \cup {Example[i] : i \in DOMAIN Example} : Push(x)
  \/ Clear

(***************************************************************************)
(* remove_duplicates (StereoSessionIsis.cc).  A Vector3 is modelled by a   *)
(* number: only equality of vectors is used.                               *)
(***************************************************************************)
Coords == 1..3

RECURSIVE SeqsUpTo(_, _)
SeqsUpTo(S, n) ==
  IF n = 0 THEN {<<>>}
  ELSE LET shorter == SeqsUpTo(S, n - 1)
       IN  shorter \cup {Append(s, x) : s \in {t \in shorter : Len(t) = n - 1}, x \in S}

\* The inner loop over j (j counts from 1 here): bad_entry after the loop.
RECURSIVE BadEntryForwardOnly(_, _, _, _)
BadEntryForwardOnly(a, b, i, j) ==
  IF j > Len(a) THEN FALSE
  ELSE (i < j /\ (a[i] = a[j] \/ b[i] = b[j])) \/ BadEntryForwardOnly(a, b, i, j + 1)

RECURSIVE BadEntry(_, _, _, _)
BadEntry(a, b, i, j) ==
  IF j > Len(a) THEN FALSE
  ELSE (i # j /\ (a[i] = a[j] \/ b[i] = b[j])) \/ BadEntry(a, b, i, j + 1)

\* The outer loop over i from index i on, with new_ip1 and new_ip2 so far.
RECURSIVE CullFrom(_, _, _, _)
CullFrom(a, b, i, new) ==
  IF i > Len(a) THEN new
  ELSE CullFrom(a, b, i + 1,
                IF BadEntry(a, b, i, 1) THEN new
                ELSE <<Append(new[1], a[i]), Append(new[2], b[i])>>)

\* remove_duplicates(ip1, ip2): the pair of vectors assigned on return.
remove_duplicates(a, b) == CullFrom(a, b, 1, <<<<>>, <<>>>>)

CallRemoveDuplicates ==
  /\ dpc = "call"
  /\ ip1' = remove_duplicates(ip1, ip2)[1]
  /\ ip2' = remove_duplicates(ip1, ip2)[2]
  /\ dpc' = "ret"
  /\ UNCHANGED <<in1, in2>>
  /\ UNCHANGED <<statsVars, sessionVars, stagesVars, offsetVars,
               cameraVars, cropVars, mainVars>>

DedupeNext == CallRemoveDuplicates

(***************************************************************************)
(* The session (StereoSessionIsis.cc).                                     *)
(*                                                                         *)
(* A file content is a pair <<kind, data>>.  An interest point is a number *)
(* standing for its position and its descriptor.  The detector, the        *)
(* descriptor generator, the matcher and RANSAC belong to an external      *)
(* library; they are modelled at their call sites.                         *)
(***************************************************************************)
Procs == {1, 2}

CacheFiles == {"vwip1", "vwip2", "match"}

\* "D" is the disparity map the correlation stage hands to the filtering
\* hook; the other names are m_out_prefix + "-lMask.tif", "-rMask.tif",
\* "-lMaskDebug.tif", "-rMaskDebug.tif", "-R-masked.exr", "-F-corrected.exr".
HookFiles == {"D", "lMask", "rMask", "lMaskDebug", "rMaskDebug", "Rmasked", "Fcorrected"}

FileNames == CacheFiles \cup {"align", "L", "R"} \cup HookFiles

Absent == <<"absent", <<>>>>

Identity == <<<<1, 0, 0>>, <<0, 1, 0>>, <<0, 0, 1>>>>

Translation(tx, ty) == <<<<1, 0, tx>>, <<0, 1, ty>>, <<0, 0, 1>>>>

\* HomographyTransform: the matrix applied to the point (x, y, 1), divided
\* by the third coordinate.
Apply(M, pt) ==
  LET w == M[3][1] * pt[1] + M[3][2] * pt[2] + M[3][3]
  IN  <<(M[1][1] * pt[1] + M[1][2] * pt[2] + M[1][3]) \div w,
        (M[2][1] * pt[1] + M[2][2] * pt[2] + M[2][3]) \div w>>

\* The adjugate of a 3x3 matrix: its inverse up to the factor det(M), which
\* the division in Apply cancels.
Adjugate(M) ==
  <<<<M[2][2] * M[3][3] - M[2][3] * M[3][2],
      M[1][3] * M[3][2] - M[1][2] * M[3][3],
      M[1][2] * M[2][3] - M[1][3] * M[2][2]>>,
    <<M[2][3] * M[3][1] - M[2][1] * M[3][3],
      M[1][1] * M[3][3] - M[1][3] * M[3][1],
      M[1][3] * M[2][1] - M[1][1] * M[2][3]>>,
    <<M[2][1] * M[3][2] - M[2][2] * M[3][1],
      M[1][2] * M[3][1] - M[1][1] * M[3][2],
      M[1][1] * M[2][2] - M[1][2] * M[2][1]>>>>

\* HomographyTransform(M).forward(pt) and .reverse(pt)
Forward(M, pt) == Apply(M, pt)

Reverse(M, pt) == Apply(Adjugate(M), pt)

\* Pixels of an image, numbered row by row; coordinates start at (0, 0).
NumPix == Cols * Rows

Pix(i) == <<(i - 1) % Cols, (i - 1) \div Cols>>

Idx(pt) == pt[2] * Cols + pt[1] + 1

InImage(pt) == pt[1] \in 0..(Cols - 1) /\ pt[2] \in 0..(Rows - 1)

\* A pixel without content: black in an image, missing in a disparity map.
Blank == <<>>

\* The right input image; each pixel is tagged with its own coordinates.
RightImage == [i \in 1..NumPix |-> Pix(i)]

\* transform(image, HomographyTransform(M), cols, rows): the output pixel p
\* is the input pixel at reverse(p), black outside the input.
Warped(image, M) ==
  [i \in 1..NumPix |->
     IF InImage(Reverse(M, Pix(i))) THEN image[Idx(Reverse(M, Pix(i)))] ELSE Blank]

\* The outcome of a RANSAC call that throws.
Throws == <<>>

\* Matrices RANSAC may fit.
Fits == {Translation(0, 0), Translation(2, -1)}

\* prefix_from_filename(input_file k) + ".vwip"
VwipOf(k) == IF k = 1 THEN "vwip1" ELSE "vwip2"

\* detect_interest_points followed by the descriptor generator on image k
DetectOut(k) == IF k = 1 THEN <<1, 2, 6>> ELSE <<1, 6>>

\* Interest points an artifact written earlier may hold instead.
OtherIp(k) == IF k = 1 THEN <<1, 4>> ELSE <<4, 4, 5>>

\* Index of the point of b nearest to value v, the lowest on ties.
Nearest(v, b) ==
  CHOOSE j \in DOMAIN b :
    \A k \in DOMAIN b :
      \/ Abs(b[j] - v) < Abs(b[k] - v)
      \/ (Abs(b[j] - v) = Abs(b[k] - v) /\ j <= k)

\* The ratio test with threshold 0.8 against the second nearest point.
PassesRatio(v, b) ==
  LET j == Nearest(v, b)
  IN  \A k \in DOMAIN b \ {j} : 10 * Abs(b[j] - v) <= 8 * Abs(b[k] - v)

\* InterestPointMatcher<L2NormMetric,NullConstraint>(0.8): each point of a
\* with its nearest neighbour in b, kept when the ratio test passes.
RECURSIVE MatchFrom(_, _, _, _)
MatchFrom(a, b, i, m) ==
  IF i > Len(a) \/ b = <<>> THEN m
  ELSE MatchFrom(a, b, i + 1,
                 IF PassesRatio(a[i], b)
                 THEN <<Append(m[1], a[i]), Append(m[2], b[Nearest(a[i], b)])>>
                 ELSE m)

Matcher(a, b) == MatchFrom(a, b, 1, <<<<>>, <<>>>>)

\* iplist_to_vectorlist: the point (x, y) becomes the Vector3 (x, y, 1).
iplist_to_vectorlist(s) == [i \in DOMAIN s |-> <<s[i], 0, 1>>]

\* A match artifact written earlier by somebody else.
OtherMatch == <<<<1, 4>>, <<4, 4>>>>

NoLocals ==
  [keypoint |-> FALSE, fetched |-> FALSE,
   ip1 |-> <<>>, ip2 |-> <<>>, ip1_copy |-> <<>>, ip2_copy |-> <<>>,
   matched |-> <<<<>>, <<>>>>, ransac |-> <<<<>>, <<>>>>,
   fitFailed |-> FALSE, T |-> <<>>, align_matrix |-> <<>>]

\* GeoReference(): the transform of a default-constructed georeference.
DefaultTransform == Identity

\* input_georef1.transform() != identity && input_georef2.transform() != identity.
\* Both georeferences are default-constructed; nothing reads them from the images.
MapProjected == DefaultTransform # Identity /\ DefaultTransform # Identity

\* The step of process p from position "from" to position "to".
Goto(p, from, to) == pc[p] = from /\ pc' = [pc EXCEPT ![p] = to]

Logs(p, events) == log' = [log EXCEPT ![p] = log[p] \o events]

\* stereo_settings().keypoint_alignment is set by the driver between calls.
Configure(b) ==
  /\ \A p \in Procs : pc[p] = "idle"
  /\ Len(done) < MaxCalls
  /\ setting # b
  /\ setting' = b
  /\ UNCHANGED <<files, pc, loc, log, startFiles, epoch, done>>
  /\ UNCHANGED <<statsVars, dedupeVars, stagesVars, offsetVars,
               cameraVars, cropVars, mainVars>>

\* A cache artifact is deleted from outside between two calls.
ExternalDelete(f) ==
  /\ \A p \in Procs : pc[p] = "idle"
  /\ epoch < MaxDeletes
  /\ Len(done) < MaxCalls
  /\ f \in CacheFiles
  /\ files[f] # Absent
  /\ files' = [files EXCEPT ![f] = Absent]
  /\ epoch' = epoch + 1
  /\ UNCHANGED <<pc, loc, log, startFiles, setting, done>>
  /\ UNCHANGED <<statsVars, dedupeVars, stagesVars, offsetVars,
               cameraVars, cropVars, mainVars>>

\* pre_preprocessing_hook up to the call of determine_image_alignment: the
\* branch on the georeferences and on keypoint_alignment.  The map-projected
\* branch writes the two images and returns.
PreStart(p) ==
  /\ pc[p] = "idle"
  /\ stage = "preprocess"
  /\ Len(done) < MaxCalls
  /\ startFiles' = [startFiles EXCEPT ![p] = files]
  /\ IF MapProjected
     THEN /\ pc' = [pc EXCEPT ![p] = "done"]
          /\ loc' = [loc EXCEPT ![p] = NoLocals]
          /\ files' = [files EXCEPT !["L"] = <<"tif", <<1>>>>,
                                    !["R"] = <<"tif", <<2>>>>]
          /\ log' = [log EXCEPT ![p] = <<"write L", "write R">>]
     ELSE /\ pc' = [pc EXCEPT ![p] = IF setting THEN "check_match" ELSE "write_align"]
          /\ loc' = [loc EXCEPT ![p] = [NoLocals EXCEPT !.keypoint = setting,
                                                        !.align_matrix = Identity]]
          /\ log' = [log EXCEPT ![p] = <<>>]
          /\ UNCHANGED files
  /\ UNCHANGED <<setting, epoch, done>>
  /\ UNCHANGED <<statsVars, dedupeVars, stagesVars, offsetVars,
               cameraVars, cropVars, mainVars>>

\* exists(<stem1>__<stem2>.match)
CheckMatchIgnoresCache(p) ==
  /\ Goto(p, "check_match", "check_vwip")
  /\ Logs(p, <<"exists match">>)
  /\ startFiles' = [startFiles EXCEPT ![p] = files]
  /\ UNCHANGED <<files, loc, setting, epoch, done>>
  /\ UNCHANGED <<statsVars, dedupeVars, stagesVars, offsetVars,
               cameraVars, cropVars, mainVars>>

CheckMatch(p) ==
  /\ Goto(p, "check_match",
          IF files["match"] # Absent THEN "read_match" ELSE "check_vwip")
  /\ Logs(p, <<"exists match">>)
  /\ startFiles' = [startFiles EXCEPT ![p] = files]
  /\ UNCHANGED <<files, loc, setting, epoch, done>>
  /\ UNCHANGED <<statsVars, dedupeVars, stagesVars, offsetVars,
               cameraVars, cropVars, mainVars>>

\* read_binary_match_file; it throws when the file is gone.
ReadMatch(p) ==
  /\ Goto(p, "read_match", IF files["match"] = Absent THEN "threw" ELSE "ransac")
  /\ Logs(p, <<"read match">>)
  /\ loc' = [loc EXCEPT ![p].matched = files["match"][2], ![p].fetched = TRUE]
  /\ UNCHANGED <<files, startFiles, setting, epoch, done>>
  /\ UNCHANGED <<statsVars, dedupeVars, stagesVars, offsetVars,
               cameraVars, cropVars, mainVars>>

\* exists(<stem1>.vwip) && exists(<stem2>.vwip)
CheckVwip(p) ==
  /\ Goto(p, "check_vwip",
          IF files["vwip1"] # Absent /\ files["vwip2"] # Absent
          THEN "read_vwips" ELSE "detect")
  /\ Logs(p, IF files["vwip1"] # Absent
             THEN <<"exists vwip1", "exists vwip2">> ELSE <<"exists vwip1">>)
  /\ UNCHANGED <<files, loc, startFiles, setting, epoch, done>>
  /\ UNCHANGED <<statsVars, dedupeVars, stagesVars, offsetVars,
               cameraVars, cropVars, mainVars>>

\* read_binary_ip_file of both cached artifacts
ReadVwips(p) ==
  /\ Goto(p, "read_vwips",
          IF files["vwip1"] = Absent \/ files["vwip2"] = Absent
          THEN "threw" ELSE "match")
  /\ Logs(p, <<"read vwip1", "read vwip2">>)
  /\ loc' = [loc EXCEPT ![p].ip1_copy = files["vwip1"][2],
                        ![p].ip2_copy = files["vwip2"][2]]
  /\ UNCHANGED <<files, startFiles, setting, epoch, done>>
  /\ UNCHANGED <<statsVars, dedupeVars, stagesVars, offsetVars,
               cameraVars, cropVars, mainVars>>

\* detection on both images, then the descriptors of both
Detect(p) ==
  /\ Goto(p, "detect", "write_vwip1")
  /\ Logs(p, <<"detect 1", "detect 2", "describe 1", "describe 2">>)
  /\ loc' = [loc EXCEPT ![p].ip1 = DetectOut(1), ![p].ip2 = DetectOut(2)]
  /\ UNCHANGED <<files, startFiles, setting, epoch, done>>
  /\ UNCHANGED <<statsVars, dedupeVars, stagesVars, offsetVars,
               cameraVars, cropVars, mainVars>>

\* A creation of <stem1>.vwip that waits while the file exists.
WriteVwip1Exclusive(p) ==
  /\ Goto(p, "write_vwip1", "write_vwip2")
  /\ files["vwip1"] = Absent
  /\ Logs(p, <<"write vwip1">>)
  /\ files' = [files EXCEPT !["vwip1"] = <<"vwip", loc[p].ip1>>]
  /\ UNCHANGED <<loc, startFiles, setting, epoch, done>>
  /\ UNCHANGED <<statsVars, dedupeVars, stagesVars, offsetVars,
               cameraVars, cropVars, mainVars>>

\* write_binary_ip_file(<stem1>.vwip, ip1)
WriteVwip1(p) ==
  /\ Goto(p, "write_vwip1", "write_vwip2")
  /\ Logs(p, <<"write vwip1">>)
  /\ files' = [files EXCEPT !["vwip1"] = <<"vwip", loc[p].ip1>>]
  /\ UNCHANGED <<loc, startFiles, setting, epoch, done>>
  /\ UNCHANGED <<statsVars, dedupeVars, stagesVars, offsetVars,
               cameraVars, cropVars, mainVars>>

\* write_binary_ip_file(<stem2>.vwip, ip2)
WriteVwip2(p) ==
  /\ Goto(p, "write_vwip2", "read_back")
  /\ Logs(p, <<"write vwip2">>)
  /\ files' = [files EXCEPT !["vwip2"] = <<"vwip", loc[p].ip2>>]
  /\ UNCHANGED <<loc, startFiles, setting, epoch, done>>
  /\ UNCHANGED <<statsVars, dedupeVars, stagesVars, offsetVars,
               cameraVars, cropVars, mainVars>>

\* reading both artifacts back into the vector format
ReadBack(p) ==
  /\ Goto(p, "read_back",
          IF files["vwip1"] = Absent \/ files["vwip2"] = Absent
          THEN "threw" ELSE "match")
  /\ Logs(p, <<"read vwip1", "read vwip2">>)
  /\ loc' = [loc EXCEPT ![p].ip1_copy = files["vwip1"][2],
                        ![p].ip2_copy = files["vwip2"][2]]
  /\ UNCHANGED <<files, startFiles, setting, epoch, done>>
  /\ UNCHANGED <<statsVars, dedupeVars, stagesVars, offsetVars,
               cameraVars, cropVars, mainVars>>

\* matcher(ip1_copy, ip2_copy, matched_ip1, matched_ip2, ...)
Match(p) ==
  /\ Goto(p, "match", "write_match")
  /\ Logs(p, <<"matcher">>)
  /\ loc' = [loc EXCEPT ![p].matched = Matcher(loc[p].ip1_copy, loc[p].ip2_copy)]
  /\ UNCHANGED <<files, startFiles, setting, epoch, done>>
  /\ UNCHANGED <<statsVars, dedupeVars, stagesVars, offsetVars,
               cameraVars, cropVars, mainVars>>

\* write_binary_match_file
WriteMatchSwapped(p) ==
  /\ Goto(p, "write_match", "ransac")
  /\ Logs(p, <<"write match">>)
  /\ files' = [files EXCEPT !["match"] =
                 <<"match", <<loc[p].matched[2], loc[p].matched[1]>>>>]
  /\ loc' = [loc EXCEPT ![p].fetched = TRUE]
  /\ UNCHANGED <<startFiles, setting, epoch, done>>
  /\ UNCHANGED <<statsVars, dedupeVars, stagesVars, offsetVars,
               cameraVars, cropVars, mainVars>>

WriteMatchNotPersisted(p) ==
  /\ Goto(p, "write_match", "ransac")
  /\ Logs(p, <<"write match">>)
  /\ loc' = [loc EXCEPT ![p].fetched = TRUE]
  /\ UNCHANGED <<files, startFiles, setting, epoch, done>>
  /\ UNCHANGED <<statsVars, dedupeVars, stagesVars, offsetVars,
               cameraVars, cropVars, mainVars>>

WriteMatch(p) ==
  /\ Goto(p, "write_match", "ransac")
  /\ Logs(p, <<"write match">>)
  /\ files' = [files EXCEPT !["match"] = <<"match", loc[p].matched>>]
  /\ loc' = [loc EXCEPT ![p].fetched = TRUE]
  /\ UNCHANGED <<startFiles, setting, epoch, done>>
  /\ UNCHANGED <<statsVars, dedupeVars, stagesVars, offsetVars,
               cameraVars, cropVars, mainVars>>

\* iplist_to_vectorlist, remove_duplicates and the RANSAC fit inside
\* try { ... } catch (...) { T = identity }; then return T to the hook.
RansacPropagates(p) ==
  /\ pc[p] = "ransac"
  /\ Logs(p, <<"ransac">>)
  /\ \E outcome \in Fits \cup {Throws} :
       /\ pc' = [pc EXCEPT ![p] = IF outcome = Throws THEN "threw" ELSE "write_align"]
       /\ loc' = [loc EXCEPT
            ![p].ransac = remove_duplicates(iplist_to_vectorlist(loc[p].matched[1]),
                                            iplist_to_vectorlist(loc[p].matched[2])),
            ![p].fitFailed = (outcome = Throws),
            ![p].T = IF outcome = Throws THEN <<>> ELSE outcome,
            ![p].align_matrix = IF outcome = Throws THEN Identity ELSE outcome]
  /\ UNCHANGED <<files, startFiles, setting, epoch, done>>
  /\ UNCHANGED <<statsVars, dedupeVars, stagesVars, offsetVars,
               cameraVars, cropVars, mainVars>>

Ransac(p) ==
  /\ Goto(p, "ransac", "write_align")
  /\ Logs(p, <<"ransac">>)
  /\ \E outcome \in Fits \cup {Throws} :
       LET T == IF outcome = Throws THEN Identity ELSE outcome
       IN  loc' = [loc EXCEPT
             ![p].ransac = remove_duplicates(iplist_to_vectorlist(loc[p].matched[1]),
                                             iplist_to_vectorlist(loc[p].matched[2])),
             ![p].fitFailed = (outcome = Throws),
             ![p].T = T,
             ![p].align_matrix = T]
  /\ UNCHANGED <<files, startFiles, setting, epoch, done>>
  /\ UNCHANGED <<statsVars, dedupeVars, stagesVars, offsetVars,
               cameraVars, cropVars, mainVars>>

\* ::write_matrix(m_out_prefix + "-align.exr", align_matrix)
WriteAlignOnlyEstimated(p) ==
  /\ Goto(p, "write_align", "write_L")
  /\ Logs(p, IF loc[p].keypoint THEN <<"write align">> ELSE <<>>)
  /\ files' = IF loc[p].keypoint
              THEN [files EXCEPT !["align"] = <<"matrix", loc[p].align_matrix>>]
              ELSE files
  /\ UNCHANGED <<loc, startFiles, setting, epoch, done>>
  /\ UNCHANGED <<statsVars, dedupeVars, stagesVars, offsetVars,
               cameraVars, cropVars, mainVars>>

WriteAlign(p) ==
  /\ Goto(p, "write_align", "write_L")
  /\ Logs(p, <<"write align">>)
  /\ files' = [files EXCEPT !["align"] = <<"matrix", loc[p].align_matrix>>]
  /\ UNCHANGED <<loc, startFiles, setting, epoch, done>>
  /\ UNCHANGED <<statsVars, dedupeVars, stagesVars, offsetVars,
               cameraVars, cropVars, mainVars>>

\* write_image(output_file1, Limg)
WriteL(p) ==
  /\ Goto(p, "write_L", "write_R")
  /\ Logs(p, <<"write L">>)
  /\ files' = [files EXCEPT !["L"] = <<"tif", <<1>>>>]
  /\ UNCHANGED <<loc, startFiles, setting, epoch, done>>
  /\ UNCHANGED <<statsVars, dedupeVars, stagesVars, offsetVars,
               cameraVars, cropVars, mainVars>>

\* write_image(output_file2, Rimg): the right image warped by align_matrix
WriteR(p) ==
  /\ Goto(p, "write_R", "done")
  /\ Logs(p, <<"write R">>)
  /\ files' = [files EXCEPT !["R"] = <<"tif", Warped(RightImage, loc[p].align_matrix)>>]
  /\ UNCHANGED <<loc, startFiles, setting, epoch, done>>
  /\ UNCHANGED <<statsVars, dedupeVars, stagesVars, offsetVars,
               cameraVars, cropVars, mainVars>>

\* The hook returns to the driver; the record of the call keeps what the
\* matrix file holds at that moment.
Return(p) ==
  /\ Goto(p, "done", "idle")
  /\ done' = Append(done, [keypoint |-> loc[p].keypoint, matched |-> loc[p].matched,
                           log |-> log[p], epoch |-> epoch,
                           align |-> files["align"]])
  /\ UNCHANGED <<files, loc, log, startFiles, setting, epoch>>
  /\ UNCHANGED <<statsVars, dedupeVars, stagesVars, offsetVars,
               cameraVars, cropVars, mainVars>>

\* One session: the hooks are called by a single driver, one at a time.
SessionNext ==
  \/ PreStart(1)
  \/ CheckMatch(1)
  \/ ReadMatch(1)
  \/ CheckVwip(1)
  \/ ReadVwips(1)
  \/ Detect(1)
  \/ WriteVwip1(1)
  \/ WriteVwip2(1)
  \/ ReadBack(1)
  \/ Match(1)
  \/ WriteMatch(1)
  \/ Ransac(1)
  \/ WriteAlign(1)
  \/ WriteL(1)
  \/ WriteR(1)
  \/ Return(1)
  \/ \E b \in BOOLEAN : Configure(b)
  \/ \E f \in CacheFiles : ExternalDelete(f)

(***************************************************************************)
(* The later stages of a session: the correlation stage leaves a           *)
(* disparity map, pre_filtering_hook masks it, pre_pointcloud_hook takes   *)
(* the alignment out of it.  A disparity map holds one cell per pixel of   *)
(* the left image: Blank (missing) or the vector <<h, v>>.                 *)
(***************************************************************************)
VAdd(a, b) == <<a[1] + b[1], a[2] + b[2]>>

VSub(a, b) == <<a[1] - b[1], a[2] - b[2]>>

\* Vectors the correlator may report.
DispVectors == {<<0, 0>>, <<1, 0>>, <<2, -1>>, <<-1, 1>>}

\* The map with vector d wherever the correlator found a match: not at the
\* pixels in holes, and only where the match lies inside the second image.
Field(d, holes) ==
  [i \in 1..NumPix |->
     IF i \in holes \/ ~InImage(VAdd(Pix(i), d)) THEN Blank ELSE d]

Fields == {Field(d, holes) : d \in DispVectors, holes \in {{}, {NumPix}}}

\* A georeference transform other than the identity.
MapGeo == <<<<2, 0, 10>>, <<0, -2, 20>>, <<0, 0, 1>>>>

\* Masks: one entry per pixel, 0 where the pixel is masked out.
FullMask == [i \in 1..NumPix |-> 1]

HoleMask == [i \in 1..NumPix |-> IF i = 1 THEN 0 ELSE 1]

\* Black pixels of the input image k (m_left_image_file, m_right_image_file).
BlackPixels(k) == IF k = 1 THEN {2} ELSE {}

\* disparity::mask_black_pixels(image, mask)
mask_black_pixels(k, m) ==
  [i \in 1..NumPix |-> IF i \in BlackPixels(k) THEN 0 ELSE m[i]]

\* disparity::mask(disparity, Lmask, Rmask): a vector survives where the
\* left mask is set at its pixel and the right mask at its target.
mask(field, Lmask, Rmask) ==
  [i \in 1..NumPix |->
     IF /\ field[i] # Blank
        /\ Lmask[i] # 0
        /\ InImage(VAdd(Pix(i), field[i]))
        /\ Rmask[Idx(VAdd(Pix(i), field[i]))] # 0
     THEN field[i] ELSE Blank]

\* stereo::disparity::transform_disparities(map, HomographyTransform(M))
TransformDisparitiesForward(field, M) ==
  [i \in 1..NumPix |->
     IF field[i] = Blank THEN Blank
     ELSE VSub(Forward(M, VAdd(Pix(i), field[i])), Pix(i))]

transform_disparities(field, M) ==
  [i \in 1..NumPix |->
     IF field[i] = Blank THEN Blank
     ELSE VSub(Reverse(M, VAdd(Pix(i), field[i])), Pix(i))]

\* stereo::disparity::remove_invalid_pixels(map, cols, rows)
remove_invalid_pixels(field, cols, rows) ==
  [i \in 1..NumPix |->
     IF field[i] = Blank THEN Blank
     ELSE LET t == VAdd(Pix(i), field[i])
          IN  IF t[1] < 0 \/ t[1] >= cols \/ t[2] < 0 \/ t[2] >= rows
              THEN Blank ELSE field[i]]

\* read_matrix succeeds on a file that holds a matrix.
Readable(content) == content[1] = "matrix"

\* A file that exists and holds no matrix.
Corrupt == <<"garbage", <<>>>>

NoIo == [input_file |-> "", output_file |-> ""]

\* The correlation stage between the two hooks: it needs the two images
\* pre_preprocessing_hook wrote and leaves the disparity map.
Correlate ==
  /\ stage = "preprocess"
  /\ \A p \in Procs : pc[p] = "idle"
  /\ Len(done) >= 1
  /\ files["L"] # Absent /\ files["R"] # Absent
  /\ \E f \in Fields : files' = [files EXCEPT !["D"] = <<"disp", f>>]
  /\ stage' = "filter"
  /\ UNCHANGED <<pc, loc, log, startFiles, setting, epoch, done>>
  /\ UNCHANGED <<geo, mask_flatfield, io>>
  /\ UNCHANGED <<statsVars, dedupeVars, offsetVars,
               cameraVars, cropVars, mainVars>>

\* pre_filtering_hook(input_file, output_file)
FilterHookAlwaysWrites(p) ==
  /\ pc[p] = "idle"
  /\ stage = "filter"
  /\ startFiles' = [startFiles EXCEPT ![p] = files]
  /\ loc' = [loc EXCEPT ![p] = NoLocals]
  /\ IF files["lMask"] = Absent \/ files["rMask"] = Absent
     THEN /\ pc' = [pc EXCEPT ![p] = "threw"]
          /\ io' = [input_file |-> "D", output_file |-> "Rmasked"]
          /\ log' = [log EXCEPT ![p] = <<"read lMask">>]
          /\ UNCHANGED files
     ELSE LET Lmask == mask_black_pixels(1, files["lMask"][2])
              Rmask == mask_black_pixels(2, files["rMask"][2])
          IN  /\ pc' = [pc EXCEPT ![p] = "hook_done"]
              /\ io' = [input_file |-> "D", output_file |-> "Rmasked"]
              /\ log' = [log EXCEPT ![p] =
                   <<"read lMask", "read rMask", "write lMaskDebug",
                     "write rMaskDebug", "read D", "write Rmasked">>]
              /\ files' = [files EXCEPT
                   !["lMaskDebug"] = <<"mask", Lmask>>,
                   !["rMaskDebug"] = <<"mask", Rmask>>,
                   !["Rmasked"] = <<"disp", mask(files["D"][2], Lmask, Rmask)>>]
  /\ UNCHANGED <<setting, epoch, done>>
  /\ UNCHANGED <<stage, geo, mask_flatfield>>
  /\ UNCHANGED <<statsVars, dedupeVars, offsetVars,
               cameraVars, cropVars, mainVars>>

\* A filter stage that removes the matrix file.
FilterHookRemovesMatrix(p) ==
  /\ pc[p] = "idle"
  /\ stage = "filter"
  /\ startFiles' = [startFiles EXCEPT ![p] = files]
  /\ loc' = [loc EXCEPT ![p] = NoLocals]
  /\ IF ~mask_flatfield
     THEN /\ pc' = [pc EXCEPT ![p] = "hook_done"]
          /\ io' = [input_file |-> "D", output_file |-> "D"]
          /\ log' = [log EXCEPT ![p] = <<>>]
          /\ files' = [files EXCEPT !["align"] = Absent]
     ELSE IF files["lMask"] = Absent \/ files["rMask"] = Absent
     THEN /\ pc' = [pc EXCEPT ![p] = "threw"]
          /\ io' = [input_file |-> "D", output_file |-> "Rmasked"]
          /\ log' = [log EXCEPT ![p] = <<"read lMask">>]
          /\ files' = [files EXCEPT !["align"] = Absent]
     ELSE LET Lmask == mask_black_pixels(1, files["lMask"][2])
              Rmask == mask_black_pixels(2, files["rMask"][2])
          IN  /\ pc' = [pc EXCEPT ![p] = "hook_done"]
              /\ io' = [input_file |-> "D", output_file |-> "Rmasked"]
              /\ log' = [log EXCEPT ![p] =
                   <<"read lMask", "read rMask", "write lMaskDebug",
                     "write rMaskDebug", "read D", "write Rmasked">>]
              /\ files' = [files EXCEPT
                   !["align"] = Absent,
                   !["lMaskDebug"] = <<"mask", Lmask>>,
                   !["rMaskDebug"] = <<"mask", Rmask>>,
                   !["Rmasked"] = <<"disp", mask(files["D"][2], Lmask, Rmask)>>]
  /\ UNCHANGED <<setting, epoch, done>>
  /\ UNCHANGED <<stage, geo, mask_flatfield>>
  /\ UNCHANGED <<statsVars, dedupeVars, offsetVars,
               cameraVars, cropVars, mainVars>>

\* pre_filtering_hook(input_file, output_file)
FilterHook(p) ==
  /\ pc[p] = "idle"
  /\ stage = "filter"
  /\ startFiles' = [startFiles EXCEPT ![p] = files]
  /\ loc' = [loc EXCEPT ![p] = NoLocals]
  /\ IF ~mask_flatfield
     THEN /\ pc' = [pc EXCEPT ![p] = "hook_done"]
          /\ io' = [input_file |-> "D", output_file |-> "D"]
          /\ log' = [log EXCEPT ![p] = <<>>]
          /\ UNCHANGED files
     ELSE IF files["lMask"] = Absent \/ files["rMask"] = Absent
     THEN /\ pc' = [pc EXCEPT ![p] = "threw"]
          /\ io' = [input_file |-> "D", output_file |-> "Rmasked"]
          /\ log' = [log EXCEPT ![p] = <<"read lMask">>]
          /\ UNCHANGED files
     ELSE LET Lmask == mask_black_pixels(1, files["lMask"][2])
              Rmask == mask_black_pixels(2, files["rMask"][2])
          IN  /\ pc' = [pc EXCEPT ![p] = "hook_done"]
              /\ io' = [input_file |-> "D", output_file |-> "Rmasked"]
              /\ log' = [log EXCEPT ![p] =
                   <<"read lMask", "read rMask", "write lMaskDebug",
                     "write rMaskDebug", "read D", "write Rmasked">>]
              /\ files' = [files EXCEPT
                   !["lMaskDebug"] = <<"mask", Lmask>>,
                   !["rMaskDebug"] = <<"mask", Rmask>>,
                   !["Rmasked"] = <<"disp", mask(files["D"][2], Lmask, Rmask)>>]
  /\ UNCHANGED <<setting, epoch, done>>
  /\ UNCHANGED <<stage, geo, mask_flatfield>>
  /\ UNCHANGED <<statsVars, dedupeVars, offsetVars,
               cameraVars, cropVars, mainVars>>

\* pre_pointcloud_hook(input_file, output_file) up to the alignment matrix:
\* the branch on the georeferences, then read_matrix inside
\* try { ... } catch (vw::IOErr &e) { ...; exit(1); }
PcStartSubstitutesIdentity(p) ==
  /\ pc[p] = "idle"
  /\ stage = "pointcloud"
  /\ startFiles' = [startFiles EXCEPT ![p] = files]
  /\ io' = [input_file |-> io.output_file, output_file |-> "Fcorrected"]
  /\ pc' = [pc EXCEPT ![p] = "pc_write"]
  /\ IF MapProjected
     THEN /\ loc' = [loc EXCEPT ![p] = NoLocals]
          /\ log' = [log EXCEPT ![p] = <<>>]
     ELSE /\ log' = [log EXCEPT ![p] = <<"read align">>]
          /\ loc' = [loc EXCEPT ![p] = [NoLocals EXCEPT !.align_matrix =
                       IF Readable(files["align"])
                       THEN files["align"][2] ELSE Identity]]
  /\ UNCHANGED <<files, setting, epoch, done>>
  /\ UNCHANGED <<stage, geo, mask_flatfield>>
  /\ UNCHANGED <<statsVars, dedupeVars, offsetVars,
               cameraVars, cropVars, mainVars>>

PcStart(p) ==
  /\ pc[p] = "idle"
  /\ stage = "pointcloud"
  /\ startFiles' = [startFiles EXCEPT ![p] = files]
  /\ io' = [input_file |-> io.output_file, output_file |-> "Fcorrected"]
  /\ IF MapProjected
     THEN /\ pc' = [pc EXCEPT ![p] = "pc_write"]
          /\ loc' = [loc EXCEPT ![p] = NoLocals]
          /\ log' = [log EXCEPT ![p] = <<>>]
     ELSE IF Readable(files["align"])
     THEN /\ pc' = [pc EXCEPT ![p] = "pc_write"]
          /\ loc' = [loc EXCEPT ![p] =
                       [NoLocals EXCEPT !.align_matrix = files["align"][2]]]
          /\ log' = [log EXCEPT ![p] = <<"read align">>]
     ELSE /\ pc' = [pc EXCEPT ![p] = "exited"]
          /\ loc' = [loc EXCEPT ![p] = NoLocals]
          /\ log' = [log EXCEPT ![p] = <<"read align", "exit 1">>]
  /\ UNCHANGED <<files, setting, epoch, done>>
  /\ UNCHANGED <<stage, geo, mask_flatfield>>
  /\ UNCHANGED <<statsVars, dedupeVars, offsetVars,
               cameraVars, cropVars, mainVars>>

\* The transformed map, cleaned of the vectors that leave the second image,
\* is written to m_out_prefix + "-F-corrected.exr".
PcWrite(p) ==
  /\ Goto(p, "pc_write", "hook_done")
  /\ Logs(p, <<"write Fcorrected">>)
  /\ LET disparity_map == files[io.input_file][2]
         corrected ==
           IF MapProjected
           THEN transform_disparities(disparity_map, DefaultTransform)
           ELSE remove_invalid_pixels(
                  transform_disparities(disparity_map, loc[p].align_matrix),
                  Cols, Rows)
     IN  files' = [files EXCEPT !["Fcorrected"] = <<"disp", corrected>>]
  /\ UNCHANGED <<loc, startFiles, setting, epoch, done>>
  /\ UNCHANGED <<stage, geo, mask_flatfield, io>>
  /\ UNCHANGED <<statsVars, dedupeVars, offsetVars,
               cameraVars, cropVars, mainVars>>

\* The filtering or point cloud hook returns; the driver moves on.
HookReturn(p) ==
  /\ Goto(p, "hook_done", "idle")
  /\ stage' = IF stage = "filter" THEN "pointcloud" ELSE "finished"
  /\ UNCHANGED <<files, loc, log, startFiles, setting, epoch, done>>
  /\ UNCHANGED <<geo, mask_flatfield, io>>
  /\ UNCHANGED <<statsVars, dedupeVars, offsetVars,
               cameraVars, cropVars, mainVars>>

\* One session run through its stages in their fixed order.
StagesNext ==
  \/ PreStart(1)
  \/ CheckMatch(1)
  \/ ReadMatch(1)
  \/ CheckVwip(1)
  \/ ReadVwips(1)
  \/ Detect(1)
  \/ WriteVwip1(1)
  \/ WriteVwip2(1)
  \/ ReadBack(1)
  \/ Match(1)
  \/ WriteMatch(1)
  \/ Ransac(1)
  \/ WriteAlign(1)
  \/ WriteL(1)
  \/ WriteR(1)
  \/ Return(1)
  \/ Correlate
  \/ FilterHook(1)
  \/ PcStart(1)
  \/ PcWrite(1)
  \/ HookReturn(1)

\* Two drivers call pre_preprocessing_hook on the same image pair at the
\* same time; their steps interleave in any order.
RaceNext ==
  \/ PreStart(1)
  \/ PreStart(2)
  \/ CheckMatch(1)
  \/ CheckMatch(2)
  \/ ReadMatch(1)
  \/ ReadMatch(2)
  \/ CheckVwip(1)
  \/ CheckVwip(2)
  \/ ReadVwips(1)
  \/ ReadVwips(2)
  \/ Detect(1)
  \/ Detect(2)
  \/ WriteVwip1(1)
  \/ WriteVwip1(2)
  \/ WriteVwip2(1)
  \/ WriteVwip2(2)
  \/ ReadBack(1)
  \/ ReadBack(2)
  \/ Match(1)
  \/ Match(2)
  \/ WriteMatch(1)
  \/ WriteMatch(2)
  \/ Ransac(1)
  \/ Ransac(2)
  \/ WriteAlign(1)
  \/ WriteAlign(2)
  \/ WriteL(1)
  \/ WriteL(2)
  \/ WriteR(1)
  \/ WriteR(2)
  \/ Return(1)
  \/ Return(2)

(***************************************************************************)
(* determineShifts (lrojitreg.cc).  The disparity map of the correlator    *)
(* is a sequence of rows, each a sequence of cells: Blank (not valid) or   *)
(* the vector <<dx, dy>>.  The row log is the sequence of the lines        *)
(* streamed to it, each <<kind, row, first value, second value>> with the  *)
(* values as handed to the stream.                                         *)
(***************************************************************************)
\* The value of a double no statement has assigned.
Unassigned == <<0, -1>>

\* Cells the correlator may report.
CellValues == {Blank, <<0, 0>>, <<2, -1>>}

\* Three rows with 1, 2 and 4 valid cells and the row means 0, 5 and 1 in
\* x (0, -2 and 1 in y).
UnevenRows ==
  <<<<<<0, 0>>, Blank, Blank, Blank>>,
    <<<<5, -2>>, <<5, -2>>, Blank, Blank>>,
    <<<<1, 1>>, <<1, 1>>, <<1, 1>>, <<1, 1>>>>>>

\* Values of --cropWidth: the width of the two cropped images and of the
\* disparity map.
CropWidths == {1, 2, Len(UnevenRows[1])}

\* The maps the correlator may return on images cropped to the width w.
OffsetFields(w) ==
  IF w = Len(UnevenRows[1]) THEN {UnevenRows}
  ELSE UNION { [1..r -> [1..w -> CellValues]] : r \in 1..MaxRows }

NoEst ==
  [disparity_map |-> <<>>, writeLogFile |-> FALSE, row |-> 0,
   numValidRows |-> 0, totalNumValidPixels |-> 0,
   rowOffsets |-> <<>>, colOffsets |-> <<>>,
   stdCalcX |-> ParkedStats, stdCalcY |-> ParkedStats]

\* std::ofstream out, and the file behind it.
NoStream == [is_open |-> FALSE, created |-> FALSE, lines |-> <<>>]

NotReturned == [returned |-> "no", dX |-> Unassigned, dY |-> Unassigned]

NoParams ==
  [leftExists |-> FALSE, rightExists |-> FALSE, cropWidth |-> 0,
   rowLogFilePath |-> "", openable |-> FALSE]

\* The inner loop with the line offsets pushed only when they are not zero.
RECURSIVE ScanRowSkipsZeroDy(_, _, _)
ScanRowSkipsZeroDy(cells, i, a) ==
  IF i > Len(cells) THEN a
  ELSE IF cells[i] = Blank THEN ScanRowSkipsZeroDy(cells, i + 1, a)
  ELSE ScanRowSkipsZeroDy(cells, i + 1,
         [rowSum |-> a.rowSum + cells[i][2],
          colSum |-> a.colSum + cells[i][1],
          numValidInRow |-> a.numValidInRow + 1,
          stdCalcX |-> PushOp(a.stdCalcX, cells[i][1]),
          stdCalcY |-> IF cells[i][2] = 0 THEN a.stdCalcY
                       ELSE PushOp(a.stdCalcY, cells[i][2])])

\* The inner loop over the columns of one row, from column i on.
RECURSIVE ScanRow(_, _, _)
ScanRow(cells, i, a) ==
  IF i > Len(cells) THEN a
  ELSE IF cells[i] = Blank THEN ScanRow(cells, i + 1, a)
  ELSE ScanRow(cells, i + 1,
         [rowSum |-> a.rowSum + cells[i][2],
          colSum |-> a.colSum + cells[i][1],
          numValidInRow |-> a.numValidInRow + 1,
          stdCalcX |-> PushOp(a.stdCalcX, cells[i][1]),
          stdCalcY |-> PushOp(a.stdCalcY, cells[i][2])])

\* The existence tests of the two inputs; then the images are loaded,
\* cropped and correlated.
StartChecksLeftOnly ==
  /\ opc = "start"
  /\ driver.pc = "in_call"
  /\ IF ~params.leftExists
     THEN /\ trace' = Append(trace, "printf input file is missing")
          /\ result' = [result EXCEPT !.returned = "false"]
          /\ opc' = "returned"
          /\ UNCHANGED est
     ELSE /\ trace' = trace \o <<"load left", "load right", "correlate">>
          /\ \E f \in OffsetFields(params.cropWidth) :
               est' = [est EXCEPT !.disparity_map = f]
          /\ opc' = "open_log"
          /\ UNCHANGED result
  /\ UNCHANGED <<params, out>>
  /\ UNCHANGED <<statsVars, dedupeVars, sessionVars, stagesVars,
               cameraVars, cropVars, mainVars>>

Start ==
  /\ opc = "start"
  /\ driver.pc = "in_call"
  /\ IF ~params.leftExists \/ ~params.rightExists
     THEN /\ trace' = Append(trace, "printf input file is missing")
          /\ result' = [result EXCEPT !.returned = "false"]
          /\ opc' = "returned"
          /\ UNCHANGED est
     ELSE /\ trace' = trace \o <<"load left", "load right", "correlate">>
          /\ \E f \in OffsetFields(params.cropWidth) :
               est' = [est EXCEPT !.disparity_map = f]
          /\ opc' = "open_log"
          /\ UNCHANGED result
  /\ UNCHANGED <<params, out>>
  /\ UNCHANGED <<statsVars, dedupeVars, sessionVars, stagesVars,
               cameraVars, cropVars, mainVars>>

\* The row log is opened when a path is given and its header is written;
\* then the counters and the two accumulators are set up.
OpenLog ==
  /\ opc = "open_log"
  /\ IF params.rowLogFilePath # "" /\ ~params.openable
     THEN /\ trace' = trace \o <<"open log", "printf Failed to create output log file">>
          /\ result' = [result EXCEPT !.returned = "false"]
          /\ opc' = "returned"
          /\ UNCHANGED <<est, out>>
     ELSE /\ trace' = IF params.rowLogFilePath # ""
                      THEN trace \o <<"open log", "printf Created output log file">>
                      ELSE trace
          /\ out' = IF params.rowLogFilePath # ""
                    THEN [is_open |-> TRUE, created |-> TRUE,
                          lines |-> <<<<"header", 0, Q(0), Q(0)>>>>]
                    ELSE out
          /\ \E g \in Garbage :
               est' = [est EXCEPT
                 !.writeLogFile = (params.rowLogFilePath # ""),
                 !.row = 0,
                 !.numValidRows = 0,
                 !.totalNumValidPixels = 0,
                 !.rowOffsets = [r \in 1..Len(est.disparity_map) |-> Q(0)],
                 !.colOffsets = [r \in 1..Len(est.disparity_map) |-> Q(0)],
                 !.stdCalcX = [m_n |-> 0, m_oldM |-> g, m_newM |-> g,
                               m_oldS |-> g, m_newS |-> g],
                 !.stdCalcY = [m_n |-> 0, m_oldM |-> g, m_newM |-> g,
                               m_oldS |-> g, m_newS |-> g]]
          /\ opc' = "rows"
          /\ UNCHANGED result
  /\ UNCHANGED params
  /\ UNCHANGED <<statsVars, dedupeVars, sessionVars, stagesVars,
               cameraVars, cropVars, mainVars>>

\* One iteration of the loop over the rows.
ProcessRow ==
  /\ opc = "rows"
  /\ est.row < Len(est.disparity_map)
  /\ LET r == est.row + 1
         a == ScanRow(est.disparity_map[r], 1,
                      [rowSum |-> 0, colSum |-> 0, numValidInRow |-> 0,
                       stdCalcX |-> est.stdCalcX, stdCalcY |-> est.stdCalcY])
         rowOffset == IF a.numValidInRow = 0 THEN Q(0)
                      ELSE Norm(a.rowSum, a.numValidInRow)
         colOffset == IF a.numValidInRow = 0 THEN Q(0)
                      ELSE Norm(a.colSum, a.numValidInRow)
     IN  /\ est' = [est EXCEPT
                 !.row = r,
                 !.rowOffsets[r] = rowOffset,
                 !.colOffsets[r] = colOffset,
                 !.totalNumValidPixels = @ + a.numValidInRow,
                 !.numValidRows = IF a.numValidInRow = 0 THEN @ ELSE @ + 1,
                 !.stdCalcX = a.stdCalcX,
                 !.stdCalcY = a.stdCalcY]
         /\ out' = IF est.writeLogFile
                   THEN [out EXCEPT !.lines =
                           Append(@, <<"row", est.row, rowOffset, colOffset>>)]
                   ELSE out
  /\ UNCHANGED <<params, opc, result, trace>>
  /\ UNCHANGED <<statsVars, dedupeVars, sessionVars, stagesVars,
               cameraVars, cropVars, mainVars>>

\* After the last row: the registration summary is written to the row log
\* and the log is closed.
SummaryWithoutNull ==
  /\ opc = "rows"
  /\ est.row = Len(est.disparity_map)
  /\ out' = IF est.writeLogFile
            THEN [out EXCEPT
                    !.is_open = FALSE,
                    !.lines = @ \o
                        <<<<"Average Sample Offset", 0,
                            Mean(est.stdCalcX), StandardDeviation(est.stdCalcX)>>,
                          <<"Average Line Offset", 0,
                            Mean(est.stdCalcY), StandardDeviation(est.stdCalcY)>>>>]
            ELSE out
  /\ trace' = IF est.writeLogFile THEN Append(trace, "close log") ELSE trace
  /\ opc' = "check"
  /\ UNCHANGED <<params, est, result>>
  /\ UNCHANGED <<statsVars, dedupeVars, sessionVars, stagesVars,
               cameraVars, cropVars, mainVars>>

\* The summary is written and the stream is left as it is.
SummaryKeepsLogOpen ==
  /\ opc = "rows"
  /\ est.row = Len(est.disparity_map)
  /\ out' = IF est.writeLogFile
            THEN [out EXCEPT
                    !.lines = @ \o
                      IF est.numValidRows > 0
                      THEN <<<<"Average Sample Offset", 0,
                               Mean(est.stdCalcX), StandardDeviation(est.stdCalcX)>>,
                             <<"Average Line Offset", 0,
                               Mean(est.stdCalcY), StandardDeviation(est.stdCalcY)>>>>
                      ELSE <<<<"Average Sample Offset: NULL", 0, Q(0), Q(0)>>,
                             <<"Average Line Offset: NULL", 0, Q(0), Q(0)>>>>]
            ELSE out
  /\ UNCHANGED trace
  /\ opc' = "check"
  /\ UNCHANGED <<params, est, result>>
  /\ UNCHANGED <<statsVars, dedupeVars, sessionVars, stagesVars,
               cameraVars, cropVars, mainVars>>

\* After the last row: the registration summary is written to the row log
\* and the log is closed.
Summary ==
  /\ opc = "rows"
  /\ est.row = Len(est.disparity_map)
  /\ out' = IF est.writeLogFile
            THEN [out EXCEPT
                    !.is_open = FALSE,
                    !.lines = @ \o
                      IF est.numValidRows > 0
                      THEN <<<<"Average Sample Offset", 0,
                               Mean(est.stdCalcX), StandardDeviation(est.stdCalcX)>>,
                             <<"Average Line Offset", 0,
                               Mean(est.stdCalcY), StandardDeviation(est.stdCalcY)>>>>
                      ELSE <<<<"Average Sample Offset: NULL", 0, Q(0), Q(0)>>,
                             <<"Average Line Offset: NULL", 0, Q(0), Q(0)>>>>]
            ELSE out
  /\ trace' = IF est.writeLogFile THEN Append(trace, "close log") ELSE trace
  /\ opc' = "check"
  /\ UNCHANGED <<params, est, result>>
  /\ UNCHANGED <<statsVars, dedupeVars, sessionVars, stagesVars,
               cameraVars, cropVars, mainVars>>

\* The test for valid rows, then the global offset is assigned.
FinishNeedsEveryRow ==
  /\ opc = "check"
  /\ IF est.numValidRows # Len(est.disparity_map)
     THEN /\ trace' = Append(trace, "printf Error: No valid pixel matches found!")
          /\ result' = [result EXCEPT !.returned = "false"]
     ELSE /\ trace' = Append(trace, "printf valid pixels in rows")
          /\ result' = [returned |-> "true",
                        dX |-> Mean(est.stdCalcX), dY |-> Mean(est.stdCalcY)]
  /\ opc' = "returned"
  /\ UNCHANGED <<params, est, out>>
  /\ UNCHANGED <<statsVars, dedupeVars, sessionVars, stagesVars,
               cameraVars, cropVars, mainVars>>

\* The mean of the offsets of the rows with a valid cell.
MeanOfRowMeans(offsets, map) ==
  LET valid == {r \in DOMAIN map : \E c \in DOMAIN map[r] : map[r][c] # Blank}
      RECURSIVE Sum(_)
      Sum(S) == IF S = {} THEN Q(0)
                ELSE LET r == CHOOSE x \in S : TRUE
                     IN  RAdd(offsets[r], Sum(S \ {r}))
  IN  RDivInt(Sum(valid), Cardinality(valid))

FinishAveragesRows ==
  /\ opc = "check"
  /\ IF est.numValidRows = 0
     THEN /\ trace' = Append(trace, "printf Error: No valid pixel matches found!")
          /\ result' = [result EXCEPT !.returned = "false"]
     ELSE /\ trace' = Append(trace, "printf valid pixels in rows")
          /\ result' = [returned |-> "true",
                        dX |-> MeanOfRowMeans(est.colOffsets, est.disparity_map),
                        dY |-> MeanOfRowMeans(est.rowOffsets, est.disparity_map)]
  /\ opc' = "returned"
  /\ UNCHANGED <<params, est, out>>
  /\ UNCHANGED <<statsVars, dedupeVars, sessionVars, stagesVars,
               cameraVars, cropVars, mainVars>>

Finish ==
  /\ opc = "check"
  /\ IF est.numValidRows = 0
     THEN /\ trace' = Append(trace, "printf Error: No valid pixel matches found!")
          /\ result' = [result EXCEPT !.returned = "false"]
     ELSE /\ trace' = Append(trace, "printf valid pixels in rows")
          /\ result' = [returned |-> "true",
                        dX |-> Mean(est.stdCalcX), dY |-> Mean(est.stdCalcY)]
  /\ opc' = "returned"
  /\ UNCHANGED <<params, est, out>>
  /\ UNCHANGED <<statsVars, dedupeVars, sessionVars, stagesVars,
               cameraVars, cropVars, mainVars>>

(***************************************************************************)
(* main of lrojitreg.  driver.pc is "arguments" before handle_arguments,   *)
(* "in_call" while determineShifts runs and "exited" afterwards; printed   *)
(* holds the lines main itself prints to standard output, error the        *)
(* message of the exception that ended it.                                 *)
(***************************************************************************)
NoReport ==
  [ pc |-> "parked", left |-> FALSE, right |-> FALSE,
    printed |-> <<>>, error |-> "" ]

\* handle_arguments: both positional arguments are required
HandleArguments ==
  /\ driver.pc = "arguments"
  /\ IF ~driver.left \/ ~driver.right
     THEN driver' = [driver EXCEPT
                       !.pc = "exited",
                       !.error = "Requires <left> and <right> input in order to proceed."]
     ELSE driver' = [driver EXCEPT !.pc = "in_call"]
  /\ UNCHANGED <<statsVars, dedupeVars, sessionVars, stagesVars, offsetVars,
                 cameraVars, cropVars>>

\* A driver that prints dX and dY whatever determineShifts returned
MainReportAlways ==
  /\ driver.pc = "in_call"
  /\ opc = "returned"
  /\ driver' = [driver EXCEPT
                  !.pc = "exited",
                  !.printed = << <<"Mean sample offset", result.dX>>,
                                 <<"Mean line   offset", result.dY>> >>]
  /\ UNCHANGED <<statsVars, dedupeVars, sessionVars, stagesVars, offsetVars,
                 cameraVars, cropVars>>

\* The test of the value determineShifts returned and the two printf calls
MainReport ==
  /\ driver.pc = "in_call"
  /\ opc = "returned"
  /\ IF result.returned = "true"
     THEN driver' = [driver EXCEPT
                       !.pc = "exited",
                       !.printed = << <<"Mean sample offset", result.dX>>,
                                      <<"Mean line   offset", result.dY>> >>]
     ELSE driver' = [driver EXCEPT !.pc = "exited"]
  /\ UNCHANGED <<statsVars, dedupeVars, sessionVars, stagesVars, offsetVars,
                 cameraVars, cropVars>>

OffsetNext ==
  \/ HandleArguments
  \/ Start
  \/ OpenLog
  \/ ProcessRow
  \/ Summary
  \/ Finish
  \/ MainReport

(***************************************************************************)
(* camera_model.  A file name is a sequence of characters, so that the     *)
(* lower-casing and the suffix test are computed character by character.   *)
(* The descriptor file is a sequence of serialized equations read through  *)
(* one stream: each read_equation takes the object at the cursor and moves *)
(* the cursor behind it.                                                   *)
(***************************************************************************)
UpperLetters ==
  <<"A", "B", "C", "D", "E", "F", "G", "H", "I", "J", "K", "L", "M",
    "N", "O", "P", "Q", "R", "S", "T", "U", "V", "W", "X", "Y", "Z">>

LowerLetters ==
  <<"a", "b", "c", "d", "e", "f", "g", "h", "i", "j", "k", "l", "m",
    "n", "o", "p", "q", "r", "s", "t", "u", "v", "w", "x", "y", "z">>

\* std::tolower on one character
ToLower(c) ==
  IF \E i \in DOMAIN UpperLetters : UpperLetters[i] = c
  THEN LowerLetters[CHOOSE i \in DOMAIN UpperLetters : UpperLetters[i] = c]
  ELSE c

\* A copy of s that keeps the case of every character
CopyKeepingCase(s) == s

\* boost::to_lower_copy
to_lower_copy(s) == [i \in 1..Len(s) |-> ToLower(s[i])]

\* boost::ends_with: the last Len(suffix) characters of s are suffix
ends_with(s, suffix) ==
  /\ Len(s) >= Len(suffix)
  /\ \A i \in 1..Len(suffix) : s[Len(s) - Len(suffix) + i] = suffix[i]

\* The literal ".isis_adjust"
AdjustExtension ==
  <<".", "i", "s", "i", "s", "_", "a", "d", "j", "u", "s", "t">>

\* s with the characters at the positions in upper in upper case
UpperAt(s, upper) ==
  [i \in 1..Len(s) |->
     IF i \in upper /\ \E k \in DOMAIN LowerLetters : LowerLetters[k] = s[i]
     THEN UpperLetters[CHOOSE k \in DOMAIN LowerLetters : LowerLetters[k] = s[i]]
     ELSE s[i]]

\* The endings of the camera files tried: the extension in several
\* spellings, and near misses of it
CameraEndings ==
  { UpperAt(AdjustExtension, upper) : upper \in SUBSET {2, 7, Len(AdjustExtension)} }
    \cup { <<".", "c", "u", "b">>,
           <<".", "C", "U", "B">>,
           SubSeq(AdjustExtension, 1, Len(AdjustExtension) - 1),
           Tail(AdjustExtension),
           <<".", "i", "s", "i", "s", "-", "a", "d", "j", "u", "s", "t">> }

\* The camera_file arguments tried: a stem, an ending, and possibly
\* something behind the ending
CameraFiles ==
  { stem \o ending \o rest :
      stem \in {<<>>, <<"m">>, <<"M", "1", ".", "c", "u", "b">>},
      ending \in CameraEndings,
      rest \in {<<>>, <<"~">>, <<".", "b", "a", "k">>} }

ImageFiles == {"left.cub", "right.cub"}

\* The serialized BaseEquation objects a descriptor may hold
Equations == {"polynomial", "sinusoid", "constant"}

\* A descriptor file: the position equation, the orientation equation,
\* and possibly more data behind them
Descriptors ==
  [1..2 -> Equations] \cup { <<"polynomial", "sinusoid", "constant">> }

\* A default-constructed boost::shared_ptr<BaseEquation>
NullEquation == "null"

NoModel == [variant |-> "none", args |-> <<>>]

NoCamera ==
  [ pc          |-> "parked",
    image_file  |-> "",
    camera_file |-> <<>>,
    descriptor  |-> <<>>,
    is_open     |-> FALSE,
    cursor      |-> 0,
    posF        |-> NullEquation,
    poseF       |-> NullEquation,
    model       |-> NoModel ]

\* read_equation(input, f): the equation at the cursor of the stream goes
\* into f and the cursor moves behind it
read_equation(descriptor, cursor) ==
  [ equation |-> descriptor[cursor], cursor |-> cursor + 1 ]

\* new IsisAdjustCameraModel(image_file, posF, poseF)
IsisAdjustCameraModel(image_file, posF, poseF) ==
  [variant |-> "IsisAdjustCameraModel", args |-> <<image_file, posF, poseF>>]

\* new IsisCameraModel(image_file)
IsisCameraModel(image_file) ==
  [variant |-> "IsisCameraModel", args |-> <<image_file>>]

\* The extension test; the standard model is built and returned at once,
\* the adjusted one after the descriptor is opened and read
CameraSelect ==
  /\ cam.pc = "called"
  /\ IF ends_with(to_lower_copy(cam.camera_file), AdjustExtension)
     THEN cam' = [cam EXCEPT !.pc = "opened", !.is_open = TRUE, !.cursor = 1]
     ELSE cam' = [cam EXCEPT !.pc = "returned",
                             !.model = IsisCameraModel(cam.image_file)]
  /\ UNCHANGED <<statsVars, dedupeVars, sessionVars, stagesVars, offsetVars,
                 mainVars, cropVars>>

\* read_equation(input, posF)
ReadPosition ==
  /\ cam.pc = "opened"
  /\ cam.cursor \in DOMAIN cam.descriptor
  /\ LET r == read_equation(cam.descriptor, cam.cursor)
     IN cam' = [cam EXCEPT !.pc = "read_posF", !.posF = r.equation,
                           !.cursor = r.cursor]
  /\ UNCHANGED <<statsVars, dedupeVars, sessionVars, stagesVars, offsetVars,
                 mainVars, cropVars>>

\* read_equation(input, poseF)
ReadOrientation ==
  /\ cam.pc = "read_posF"
  /\ cam.cursor \in DOMAIN cam.descriptor
  /\ LET r == read_equation(cam.descriptor, cam.cursor)
     IN cam' = [cam EXCEPT !.pc = "read_poseF", !.poseF = r.equation,
                           !.cursor = r.cursor]
  /\ UNCHANGED <<statsVars, dedupeVars, sessionVars, stagesVars, offsetVars,
                 mainVars, cropVars>>

\* input.close() and the construction of the adjusted model
CameraConstruct ==
  /\ cam.pc = "read_poseF"
  /\ cam' = [cam EXCEPT !.pc = "returned", !.is_open = FALSE,
                        !.model = IsisAdjustCameraModel(cam.image_file,
                                                        cam.posF, cam.poseF)]
  /\ UNCHANGED <<statsVars, dedupeVars, sessionVars, stagesVars, offsetVars,
                 mainVars, cropVars>>

CameraNext ==
  \/ CameraSelect
  \/ ReadPosition
  \/ ReadOrientation
  \/ CameraConstruct

(***************************************************************************)
(* The crop window of determineShifts: the common size of the two images   *)
(* and the strip cut from each of them.  All quantities are C++ ints; the  *)
(* sizes used here are far from the limits of the type.                    *)
(***************************************************************************)
\* The division of C++ ints, which truncates towards zero
IntDiv(a, b) ==
  IF a >= 0 THEN a \div b ELSE -((-a) \div b)

\* std::min
Min(a, b) == IF a < b THEN a ELSE b

\* The sizes of the image files tried
ImageSizes == [cols : 1..MaxDim, rows : 1..MaxDimRows]

\* The values of --cropWidth tried: the option takes any int
CropWidthOptions == -1..(MaxDim + 2)

NoWindow == [x |-> 0, y |-> 0, width |-> 0, height |-> 0]

NoCrop ==
  [ pc        |-> "parked",
    left      |-> [cols |-> 0, rows |-> 0],
    right     |-> [cols |-> 0, rows |-> 0],
    cropWidth |-> 0,
    cols      |-> 0,
    rows      |-> 0,
    leftCrop  |-> NoWindow,
    rightCrop |-> NoWindow ]

\* vw::CropView(image, x, y, width, height): the window is taken as given
CropView(x, y, width, height) ==
  [x |-> x, y |-> y, width |-> width, height |-> height]

\* cols and rows: the smaller of the two widths and of the two heights
CommonSize ==
  /\ crop.pc = "loaded"
  /\ crop' = [crop EXCEPT !.pc = "sized",
                          !.cols = Min(crop.left.cols, crop.right.cols),
                          !.rows = Min(crop.left.rows, crop.right.rows)]
  /\ UNCHANGED <<statsVars, dedupeVars, sessionVars, stagesVars, offsetVars,
                 mainVars, cameraVars>>

\* The strip around the horizontal mid point, cut from each disk image
CropBoth ==
  /\ crop.pc = "sized"
  /\ LET imageMidPointX  == IntDiv(crop.cols, 2)
         leftCropStartX  == imageMidPointX - IntDiv(crop.cropWidth, 2)
         rightCropStartX == imageMidPointX - IntDiv(crop.cropWidth, 2)
         imageHeight     == crop.rows
         imageTopRow     == 0
     IN crop' = [crop EXCEPT
                   !.pc = "cropped",
                   !.leftCrop  = CropView(leftCropStartX, imageTopRow,
                                          crop.cropWidth, imageHeight),
                   !.rightCrop = CropView(rightCropStartX, imageTopRow,
                                          crop.cropWidth, imageHeight)]
  /\ UNCHANGED <<statsVars, dedupeVars, sessionVars, stagesVars, offsetVars,
                 mainVars, cameraVars>>

CropNext ==
  \/ CommonSize
  \/ CropBoth

(***************************************************************************)
(* The specifications.  The components a specification does not move stay  *)
(* at fixed values: no accumulator in use, no remove_duplicates call, no   *)
(* session.                                                                *)
(***************************************************************************)

\* The disk with the three cache artifacts v1, v2, m and nothing else.
CacheDisk(v1, v2, m) ==
  [f \in FileNames |->
     CASE f = "vwip1" -> v1
       [] f = "vwip2" -> v2
       [] f = "match" -> m
       [] OTHER -> Absent]

\* Two newly constructed accumulators.
StatsInit ==
  /\ acc \in Constructed
  /\ ref \in Constructed
  /\ hist = <<>>
  /\ cleared = FALSE
  /\ preHist = <<>>
  /\ ip1 = <<>>
  /\ ip2 = <<>>
  /\ in1 = <<>>
  /\ in2 = <<>>
  /\ dpc = "parked"
  /\ files = [f \in FileNames |-> Absent]
  /\ pc = [p \in Procs |-> "idle"]
  /\ loc = [p \in Procs |-> NoLocals]
  /\ log = [p \in Procs |-> <<>>]
  /\ startFiles = [p \in Procs |-> files]
  /\ setting = FALSE
  /\ epoch = 0
  /\ done = <<>>
  /\ stage = "preprocess"
  /\ geo = <<Identity, Identity>>
  /\ mask_flatfield = FALSE
  /\ io = NoIo
  /\ params = NoParams
  /\ opc = "parked"
  /\ est = NoEst
  /\ out = NoStream
  /\ result = NotReturned
  /\ trace = <<>>
  /\ driver = NoReport
  /\ crop = NoCrop
  /\ cam = NoCamera

\* A caller about to call remove_duplicates on two vectors of one length.
DedupeInit ==
  /\ ip1 \in SeqsUpTo(Coords, MaxIp)
  /\ ip2 \in {s \in SeqsUpTo(Coords, MaxIp) : Len(s) = Len(ip1)}
  /\ in1 = ip1
  /\ in2 = ip2
  /\ dpc = "call"
  /\ acc = ParkedStats
  /\ ref = ParkedStats
  /\ hist = <<>>
  /\ cleared = FALSE
  /\ preHist = <<>>
  /\ files = [f \in FileNames |-> Absent]
  /\ pc = [p \in Procs |-> "idle"]
  /\ loc = [p \in Procs |-> NoLocals]
  /\ log = [p \in Procs |-> <<>>]
  /\ startFiles = [p \in Procs |-> files]
  /\ setting = FALSE
  /\ epoch = 0
  /\ done = <<>>
  /\ stage = "preprocess"
  /\ geo = <<Identity, Identity>>
  /\ mask_flatfield = FALSE
  /\ io = NoIo
  /\ params = NoParams
  /\ opc = "parked"
  /\ est = NoEst
  /\ out = NoStream
  /\ result = NotReturned
  /\ trace = <<>>
  /\ driver = NoReport
  /\ crop = NoCrop
  /\ cam = NoCamera

\* A session before its first hook, with any cache content on disk.
SessionInit ==
  /\ \E v1 \in {Absent, <<"vwip", DetectOut(1)>>, <<"vwip", OtherIp(1)>>},
        v2 \in {Absent, <<"vwip", DetectOut(2)>>, <<"vwip", OtherIp(2)>>},
        m \in {Absent, <<"match", Matcher(DetectOut(1), DetectOut(2))>>,
               <<"match", OtherMatch>>} :
       files = CacheDisk(v1, v2, m)
  /\ pc = [p \in Procs |-> "idle"]
  /\ loc = [p \in Procs |-> NoLocals]
  /\ log = [p \in Procs |-> <<>>]
  /\ startFiles = [p \in Procs |-> files]
  /\ setting \in BOOLEAN
  /\ epoch = 0
  /\ done = <<>>
  /\ stage = "preprocess"
  /\ geo = <<Identity, Identity>>
  /\ mask_flatfield = FALSE
  /\ io = NoIo
  /\ acc = ParkedStats
  /\ ref = ParkedStats
  /\ hist = <<>>
  /\ cleared = FALSE
  /\ preHist = <<>>
  /\ ip1 = <<>>
  /\ ip2 = <<>>
  /\ in1 = <<>>
  /\ in2 = <<>>
  /\ dpc = "parked"
  /\ params = NoParams
  /\ opc = "parked"
  /\ est = NoEst
  /\ out = NoStream
  /\ result = NotReturned
  /\ trace = <<>>
  /\ driver = NoReport
  /\ crop = NoCrop
  /\ cam = NoCamera

\* A session entered at its first stage, or resumed at the filtering stage
\* on the disparity map of an earlier run; the images carry georeferences
\* or not, and the flat-field masks are on disk or not.
StagesInit ==
  /\ stage \in {"preprocess", "filter"}
  /\ geo \in {Identity, MapGeo} \X {Identity, MapGeo}
  /\ mask_flatfield \in BOOLEAN
  /\ io = NoIo
  /\ setting \in BOOLEAN
  /\ \E v \in {<<Absent, Absent>>,
                 <<<<"vwip", DetectOut(1)>>, <<"vwip", DetectOut(2)>>>>},
        m \in {Absent, <<"match", Matcher(DetectOut(1), DetectOut(2))>>},
        masks \in {<<Absent, Absent>>, <<<<"mask", FullMask>>, <<"mask", FullMask>>>>,
                   <<<<"mask", HoleMask>>, <<"mask", FullMask>>>>},
        a \in {Absent, Corrupt},
        d \in Fields :
       files = IF stage = "preprocess"
               THEN [CacheDisk(v[1], v[2], m) EXCEPT
                       !["lMask"] = masks[1], !["rMask"] = masks[2]]
               ELSE [CacheDisk(Absent, Absent, Absent) EXCEPT
                       !["lMask"] = masks[1], !["rMask"] = masks[2],
                       !["align"] = a, !["D"] = <<"disp", d>>]
  /\ pc = [p \in Procs |-> "idle"]
  /\ loc = [p \in Procs |-> NoLocals]
  /\ log = [p \in Procs |-> <<>>]
  /\ startFiles = [p \in Procs |-> files]
  /\ epoch = 0
  /\ done = <<>>
  /\ acc = ParkedStats
  /\ ref = ParkedStats
  /\ hist = <<>>
  /\ cleared = FALSE
  /\ preHist = <<>>
  /\ ip1 = <<>>
  /\ ip2 = <<>>
  /\ in1 = <<>>
  /\ in2 = <<>>
  /\ dpc = "parked"
  /\ params = NoParams
  /\ opc = "parked"
  /\ est = NoEst
  /\ out = NoStream
  /\ result = NotReturned
  /\ trace = <<>>
  /\ driver = NoReport
  /\ crop = NoCrop
  /\ cam = NoCamera

\* lrojitreg called on two paths, with or without a row log.
OffsetInit ==
  /\ params \in [leftExists : BOOLEAN, rightExists : BOOLEAN,
                  cropWidth : CropWidths,
                  rowLogFilePath : {"", "rows.log"}, openable : BOOLEAN]
  /\ opc = "start"
  /\ est = NoEst
  /\ out = NoStream
  /\ result = NotReturned
  /\ trace = <<>>
  /\ driver \in [pc : {"arguments"}, left : BOOLEAN, right : BOOLEAN,
                  printed : {<<>>}, error : {""}]
  /\ crop = NoCrop
  /\ cam = NoCamera
  /\ acc = ParkedStats
  /\ ref = ParkedStats
  /\ hist = <<>>
  /\ cleared = FALSE
  /\ preHist = <<>>
  /\ ip1 = <<>>
  /\ ip2 = <<>>
  /\ in1 = <<>>
  /\ in2 = <<>>
  /\ dpc = "parked"
  /\ files = [f \in FileNames |-> Absent]
  /\ pc = [p \in Procs |-> "idle"]
  /\ loc = [p \in Procs |-> NoLocals]
  /\ log = [p \in Procs |-> <<>>]
  /\ startFiles = [p \in Procs |-> files]
  /\ setting = FALSE
  /\ epoch = 0
  /\ done = <<>>
  /\ stage = "preprocess"
  /\ geo = <<Identity, Identity>>
  /\ mask_flatfield = FALSE
  /\ io = NoIo

CropInit ==
  /\ crop \in [pc : {"loaded"}, left : ImageSizes, right : ImageSizes,
                cropWidth : CropWidthOptions, cols : {0}, rows : {0},
                leftCrop : {NoWindow}, rightCrop : {NoWindow}]
  /\ acc = ParkedStats
  /\ ref = ParkedStats
  /\ hist = <<>>
  /\ cleared = FALSE
  /\ preHist = <<>>
  /\ ip1 = <<>>
  /\ ip2 = <<>>
  /\ in1 = <<>>
  /\ in2 = <<>>
  /\ dpc = "parked"
  /\ files = [f \in FileNames |-> Absent]
  /\ pc = [p \in Procs |-> "idle"]
  /\ loc = [p \in Procs |-> NoLocals]
  /\ log = [p \in Procs |-> <<>>]
  /\ startFiles = [p \in Procs |-> files]
  /\ setting = FALSE
  /\ epoch = 0
  /\ done = <<>>
  /\ stage = "preprocess"
  /\ geo = <<Identity, Identity>>
  /\ mask_flatfield = FALSE
  /\ io = NoIo
  /\ params = NoParams
  /\ opc = "parked"
  /\ est = NoEst
  /\ out = NoStream
  /\ result = NotReturned
  /\ trace = <<>>
  /\ driver = NoReport
  /\ cam = NoCamera

CameraInit ==
  /\ cam \in [pc : {"called"}, image_file : ImageFiles,
               camera_file : CameraFiles, descriptor : Descriptors,
               is_open : {FALSE}, cursor : {0}, posF : {NullEquation},
               poseF : {NullEquation}, model : {NoModel}]
  /\ acc = ParkedStats
  /\ ref = ParkedStats
  /\ hist = <<>>
  /\ cleared = FALSE
  /\ preHist = <<>>
  /\ ip1 = <<>>
  /\ ip2 = <<>>
  /\ in1 = <<>>
  /\ in2 = <<>>
  /\ dpc = "parked"
  /\ files = [f \in FileNames |-> Absent]
  /\ pc = [p \in Procs |-> "idle"]
  /\ loc = [p \in Procs |-> NoLocals]
  /\ log = [p \in Procs |-> <<>>]
  /\ startFiles = [p \in Procs |-> files]
  /\ setting = FALSE
  /\ epoch = 0
  /\ done = <<>>
  /\ stage = "preprocess"
  /\ geo = <<Identity, Identity>>
  /\ mask_flatfield = FALSE
  /\ io = NoIo
  /\ params = NoParams
  /\ opc = "parked"
  /\ est = NoEst
  /\ out = NoStream
  /\ result = NotReturned
  /\ trace = <<>>
  /\ driver = NoReport
  /\ crop = NoCrop

RaceInit ==
  /\ files = CacheDisk(Absent, Absent, Absent)
  /\ acc = ParkedStats
  /\ ref = ParkedStats
  /\ hist = <<>>
  /\ cleared = FALSE
  /\ preHist = <<>>
  /\ ip1 = <<>>
  /\ ip2 = <<>>
  /\ in1 = <<>>
  /\ in2 = <<>>
  /\ dpc = "parked"
  /\ pc = [p \in Procs |-> "idle"]
  /\ loc = [p \in Procs |-> NoLocals]
  /\ log = [p \in Procs |-> <<>>]
  /\ startFiles = [p \in Procs |-> files]
  /\ setting = TRUE
  /\ epoch = 0
  /\ done = <<>>
  /\ stage = "preprocess"
  /\ geo = <<Identity, Identity>>
  /\ mask_flatfield = FALSE
  /\ io = NoIo
  /\ params = NoParams
  /\ opc = "parked"
  /\ est = NoEst
  /\ out = NoStream
  /\ result = NotReturned
  /\ trace = <<>>
  /\ driver = NoReport
  /\ crop = NoCrop
  /\ cam = NoCamera

SpecStats == StatsInit /\ [][StatsNext]_vars

SpecDedupe == DedupeInit /\ [][DedupeNext]_vars

SpecSession == SessionInit /\ [][SessionNext]_vars

SpecStages == StagesInit /\ [][StagesNext]_vars

SpecOffset == OffsetInit /\ [][OffsetNext]_vars

SpecRace == RaceInit /\ [][RaceNext]_vars

SpecCrop == CropInit /\ [][CropNext]_vars

SpecCamera == CameraInit /\ [][CameraNext]_vars

(***************************************************************************)
(* Claims about RunningStandardDeviation, checked under SpecStats.         *)
(***************************************************************************)
RECURSIVE SumSeq(_)
SumSeq(s) == IF s = <<>> THEN 0 ELSE s[1] + SumSeq(Tail(s))

\* (x1 + ... + xn) / n
ArithMean(s) == Norm(SumSeq(s), Len(s))

\* The sum over s of (x - m)^2
RECURSIVE SumSqDev(_, _)
SumSqDev(s, m) ==
  IF s = <<>> THEN Q(0)
  ELSE RAdd(RMul(RSub(Q(s[1]), m), RSub(Q(s[1]), m)), SumSqDev(Tail(s), m))

\* C1: after the pushes x1..xn (n >= 1) on a newly constructed object,
\* NumDataValues() = n, Mean() is the arithmetic mean and, for n > 1,
\* Variance() is the sum of squared deviations from it over n - 1; the
\* samples 2,4,4,4,5,5,7,9 give mean 5 and variance 32/7.
C1_WelfordIsMeanAndVariance ==
  (~cleared /\ hist # <<>>) =>
    /\ NumDataValues(acc) = Len(hist)
    /\ Mean(acc) = ArithMean(hist)
    /\ Len(hist) > 1 =>
         Variance(acc) = RDivInt(SumSqDev(hist, ArithMean(hist)), Len(hist) - 1)
    /\ hist = Example => (Mean(acc) = Q(5) /\ Variance(acc) = <<32, 7>>)

C1_Witness ==
  /\ ~cleared
  /\ hist = Example
  /\ NumDataValues(acc) = 8
  /\ Variance(acc) = <<32, 7>>

\* C2: after Clear() and any further pushes, the four accessors of acc
\* return what they return on an object constructed at the time of the
\* Clear() and given the same pushes.
C2_ClearedEqualsFresh ==
  cleared =>
    /\ NumDataValues(acc) = NumDataValues(ref)
    /\ NumDataValues(acc) = Len(hist)
    /\ Mean(acc) = Mean(ref)
    /\ Variance(acc) = Variance(ref)
    /\ StandardDeviation(acc) = StandardDeviation(ref)

C2_Witness ==
  /\ cleared
  /\ Len(preHist) >= 2
  /\ Len(hist) = 1
  /\ acc.m_newS # ref.m_newS
  /\ Variance(acc) = Variance(ref)

\* C3: with no sample Mean() = 0 and Variance() = 0; with one sample x,
\* Mean() = x and Variance() = 0; no accessor ever divides by zero.
C3_FewSamples ==
  /\ NumDataValues(acc) = 0 => (Mean(acc) = Q(0) /\ Variance(acc) = Q(0))
  /\ NumDataValues(acc) = 1 => (Mean(acc) = Q(hist[1]) /\ Variance(acc) = Q(0))
  /\ Mean(acc) # NaN
  /\ Variance(acc) # NaN
  /\ StandardDeviation(acc) # NaN

C3_Witness ==
  /\ NumDataValues(acc) = 1
  /\ hist = <<3>>
  /\ acc.m_newS # Q(0)
  /\ Mean(acc) = Q(3)
  /\ Variance(acc) = Q(0)

(***************************************************************************)
(* Claims about remove_duplicates, checked under SpecDedupe.               *)
(***************************************************************************)
\* Index i of the input shares no coordinate with another index.
Unique(i) ==
  ~ \E j \in DOMAIN in1 : j # i /\ (in1[i] = in1[j] \/ in2[i] = in2[j])

Survivors == {i \in DOMAIN in1 : Unique(i)}

\* The r-th surviving index in increasing order.
NthSurvivor(r) ==
  CHOOSE i \in Survivors : Cardinality({j \in Survivors : j < i}) = r - 1

\* C4: index i survives iff no other index shares ip1[i] or ip2[i]; the
\* survivors keep their order, both outputs have the same length, and no
\* two surviving indices share a coordinate on either side.
C4_DedupeKeepsExactlyUnique ==
  dpc = "ret" =>
    /\ Len(ip1) = Cardinality(Survivors)
    /\ Len(ip2) = Len(ip1)
    /\ \A r \in DOMAIN ip1 :
         ip1[r] = in1[NthSurvivor(r)] /\ ip2[r] = in2[NthSurvivor(r)]
    /\ \A r, q \in DOMAIN ip1 :
         r # q => (ip1[r] # ip1[q] /\ ip2[r] # ip2[q])

C4_Witness ==
  /\ dpc = "ret"
  /\ in1 = <<1, 2, 3>>
  /\ in2 = <<2, 1, 2>>
  /\ ip1 = <<2>>
  /\ ip2 = <<1>>

(***************************************************************************)
(* Claims about the session, checked under SpecSession.                    *)
(***************************************************************************)
Has(l, e) == \E i \in DOMAIN l : l[i] = e

\* e occurs in l, and before any occurrence of f.
Before(l, e, f) ==
  \E i \in DOMAIN l : l[i] = e /\ \A j \in DOMAIN l : l[j] = f => i < j

InCall(p) == pc[p] # "idle"

\* determine_image_alignment has been entered and has tested the match file.
InFetch(p) == InCall(p) /\ loc[p].keypoint /\ pc[p] # "check_match"

DetectEvents == {"detect 1", "detect 2", "describe 1", "describe 2"}

CacheWrites == {"write vwip1", "write vwip2", "write match"}

CacheUntouched(p) == \A f \in CacheFiles : files[f] = startFiles[p][f]

\* C5: when the match artifact exists as determine_image_alignment starts,
\* it is loaded and used: no detection, description or matching runs, no
\* .vwip artifact is read and no cache file is written, whatever .vwip
\* artifacts exist.
C5_MatchFileShortCircuits ==
  \A p \in Procs :
    (InFetch(p) /\ startFiles[p]["match"] # Absent) =>
      /\ \A i \in DOMAIN log[p] :
           log[p][i] \notin DetectEvents \cup CacheWrites
                              \cup {"matcher", "read vwip1", "read vwip2"}
      /\ CacheUntouched(p)
      /\ pc[p] # "threw"
      /\ pc[p] # "read_match" =>
           /\ loc[p].fetched
           /\ Has(log[p], "read match")
           /\ loc[p].matched = startFiles[p]["match"][2]

C5_Witness ==
  /\ pc[1] = "done"
  /\ loc[1].keypoint
  /\ startFiles[1]["match"] = <<"match", OtherMatch>>
  /\ startFiles[1]["vwip1"] = Absent
  /\ startFiles[1]["vwip2"] # Absent
  /\ loc[1].matched = OtherMatch

\* C6: when the match artifact is absent, (a) with both .vwip artifacts
\* present they are loaded and matched without detection or description,
\* (b) otherwise both images are detected and described and both .vwip
\* artifacts written before matching; in both cases the matcher result is
\* written to the match artifact before determine_image_alignment goes on.
C6_MissFillsTheCache ==
  \A p \in Procs :
    (InFetch(p) /\ startFiles[p]["match"] = Absent) =>
      LET both == startFiles[p]["vwip1"] # Absent /\ startFiles[p]["vwip2"] # Absent
          l == log[p]
      IN  /\ pc[p] # "threw"
          /\ both =>
               /\ \A i \in DOMAIN l : l[i] \notin DetectEvents
               /\ Has(l, "matcher") =>
                    /\ Before(l, "read vwip1", "matcher")
                    /\ Before(l, "read vwip2", "matcher")
                    /\ loc[p].matched = Matcher(startFiles[p]["vwip1"][2],
                                                startFiles[p]["vwip2"][2])
          /\ (~both /\ Has(l, "matcher")) =>
               /\ \A e \in DetectEvents \cup {"write vwip1", "write vwip2"} :
                    Before(l, e, "matcher")
               /\ \A e \in DetectEvents :
                    Before(l, e, "write vwip1") /\ Before(l, e, "write vwip2")
               /\ \A k \in 1..2 : files[VwipOf(k)] = <<"vwip", DetectOut(k)>>
               /\ loc[p].matched = Matcher(DetectOut(1), DetectOut(2))
          /\ loc[p].fetched =>
               /\ Before(l, "matcher", "write match")
               /\ Has(l, "write match")
               /\ files["match"] = <<"match", loc[p].matched>>

C6_Witness ==
  /\ pc[1] = "done"
  /\ loc[1].keypoint
  /\ startFiles[1]["match"] = Absent
  /\ startFiles[1]["vwip1"] = Absent
  /\ startFiles[1]["vwip2"] = Absent
  /\ Has(log[1], "detect 2")
  /\ files["match"] = <<"match", Matcher(DetectOut(1), DetectOut(2))>>

\* Two completed calls i < j that both ran determine_image_alignment, with
\* no external deletion in between.
FetchedTwice(i, j) ==
  /\ i \in DOMAIN done /\ j \in DOMAIN done
  /\ i < j
  /\ done[i].keypoint /\ done[j].keypoint
  /\ done[i].epoch = done[j].epoch

\* C7: a second determine_image_alignment on the same pair, with no
\* external deletion in between, obtains the same correspondences as the
\* first, runs no detection, description or matching and writes no cache
\* file.
C7_FetchIdempotent ==
  \A i, j \in DOMAIN done :
    FetchedTwice(i, j) =>
      /\ done[j].matched = done[i].matched
      /\ \A k \in DOMAIN done[j].log :
           done[j].log[k] \notin DetectEvents \cup CacheWrites \cup {"matcher"}

C7_Witness ==
  /\ FetchedTwice(1, 2)
  /\ Has(done[1].log, "detect 1")
  /\ Has(done[1].log, "write match")
  /\ done[2].matched = Matcher(DetectOut(1), DetectOut(2))
  /\ Has(done[2].log, "read match")

WriteOf(f) ==
  CASE f = "vwip1" -> "write vwip1"
    [] f = "vwip2" -> "write vwip2"
    [] f = "match" -> "write match"

\* C8: a cache artifact that exists when the call starts has the same
\* content afterwards and is not written by the call; in particular a
\* .vwip artifact that exists alone is not regenerated.
C8_ExistingArtifactsNeverRewritten ==
  \A p \in Procs :
    InCall(p) =>
      \A f \in CacheFiles :
        startFiles[p][f] # Absent =>
          /\ files[f] = startFiles[p][f]
          /\ ~Has(log[p], WriteOf(f))

\* C9: when the RANSAC fit throws, determine_image_alignment returns the
\* identity, and the hook goes on: it writes the identity to the matrix
\* file and then both images.
C9_FitFailureYieldsIdentity ==
  \A p \in Procs :
    (InCall(p) /\ loc[p].fitFailed) =>
      /\ pc[p] \in {"write_align", "write_L", "write_R", "done"}
      /\ loc[p].T = Identity
      /\ loc[p].align_matrix = Identity
      /\ pc[p] # "done" => ENABLED (WriteAlign(p) \/ WriteL(p) \/ WriteR(p))
      /\ pc[p] # "write_align" => files["align"] = <<"matrix", Identity>>
      /\ pc[p] = "done" =>
           /\ files["L"] # Absent /\ files["R"] # Absent
           /\ Before(log[p], "ransac", "write align")
           /\ Before(log[p], "write align", "write L")
           /\ Before(log[p], "write L", "write R")
           /\ Has(log[p], "write R")

C9_Witness ==
  /\ pc[1] = "done"
  /\ loc[1].fitFailed
  /\ files["align"] = <<"matrix", Identity>>
  /\ files["L"] # Absent
  /\ files["R"] # Absent

\* C10: on the unprojected path the matrix file is written before the
\* output images, with the estimated matrix when keypoint_alignment is
\* set and the identity otherwise; when it is not set,
\* determine_image_alignment is not entered and no cache artifact is
\* tested, read or written.
C10_MatrixAlwaysPersisted ==
  \A p \in Procs :
    (InCall(p) /\ ~MapProjected) =>
      LET l == log[p]
      IN  /\ (Has(l, "write L") \/ Has(l, "write R") \/ pc[p] = "done") =>
               /\ Before(l, "write align", "write L")
               /\ Before(l, "write align", "write R")
               /\ files["align"] = <<"matrix", loc[p].align_matrix>>
          /\ (loc[p].keypoint /\ Has(l, "write align")) =>
               /\ Before(l, "ransac", "write align")
               /\ loc[p].align_matrix = loc[p].T
          /\ ~loc[p].keypoint =>
               /\ loc[p].align_matrix = Identity
               /\ \A i \in DOMAIN l : l[i] \in {"write align", "write L", "write R"}
               /\ CacheUntouched(p)

C10_Witness ==
  /\ pc[1] = "done"
  /\ ~loc[1].keypoint
  /\ log[1] = <<"write align", "write L", "write R">>
  /\ files["align"] = <<"matrix", Identity>>
  /\ startFiles[1]["match"] # Absent
  /\ files["match"] = startFiles[1]["match"]

(***************************************************************************)
(* Claims about the stages of a session, checked under SpecStages.         *)
(***************************************************************************)
\* pre_preprocessing_hook is running or has just finished in process p.
InPreprocess(p) == stage = "preprocess" /\ InCall(p)

\* pre_pointcloud_hook is running or has just finished in process p.
InPointCloud(p) == stage = "pointcloud" /\ InCall(p)

\* C11: when both input images carry a georeference other than the
\* identity, pre_preprocessing_hook takes the map-projected path: it calls
\* neither the alignment cache nor the feature aligner, reads and writes no
\* .vwip or .match artifact and computes and persists no alignment matrix;
\* it only writes the two output images.
C11_GeoreferencedPairSkipsAlignment ==
  \A p \in Procs :
    (InPreprocess(p) /\ geo[1] # Identity /\ geo[2] # Identity) =>
      /\ \A i \in DOMAIN log[p] : log[p][i] \in {"write L", "write R"}
      /\ CacheUntouched(p)
      /\ files["align"] = startFiles[p]["align"]
      /\ loc[p].T = <<>>

\* C12: on the unprojected path of pre_pointcloud_hook, when the alignment
\* matrix file is absent or unreadable the session exits at once with a
\* failure: the corrected disparity map is never written and no identity
\* matrix stands in for the missing one.
C12_MissingMatrixIsFatal ==
  \A p \in Procs :
    (InPointCloud(p) /\ ~MapProjected /\ ~Readable(startFiles[p]["align"])) =>
      /\ pc[p] = "exited"
      /\ log[p] = <<"read align", "exit 1">>
      /\ loc[p].align_matrix # Identity
      /\ files = startFiles[p]
      /\ files["Fcorrected"] = Absent

C12_Witness ==
  /\ pc[1] = "exited"
  /\ stage = "pointcloud"
  /\ files["align"] = Absent
  /\ files["D"] # Absent
  /\ files["Fcorrected"] = Absent

(***************************************************************************)
(* Claims about determineShifts, checked under SpecOffset.                 *)
(***************************************************************************)
\* The valid cells of row r of the map, as a sequence.
ValidCells(map, r) == SelectSeq(map[r], LAMBDA c : c # Blank)

NoValidCell(map) == \A r \in DOMAIN map : ValidCells(map, r) = <<>>

\* Both inputs exist and the row log is not requested or can be opened.
InputsUsable ==
  /\ params.leftExists
  /\ params.rightExists
  /\ params.rowLogFilePath = "" \/ params.openable

\* C13: with both inputs present and the row log writable or not
\* requested, determineShifts fails with "no valid matches", assigning no
\* offset, exactly when no row of the disparity map has a valid cell;
\* otherwise it succeeds and assigns the offset.
C13_FailsIffNoValidCell ==
  (opc = "returned" /\ InputsUsable) =>
    /\ result.returned = "false" <=> NoValidCell(est.disparity_map)
    /\ result.returned = "false" =>
         /\ trace[Len(trace)] = "printf Error: No valid pixel matches found!"
         /\ result.dX = Unassigned
         /\ result.dY = Unassigned
    /\ result.returned # "false" =>
         /\ result.returned = "true"
         /\ result.dX # Unassigned
         /\ result.dY # Unassigned

C13_Witness ==
  /\ opc = "returned"
  /\ InputsUsable
  /\ Len(est.disparity_map) = MaxRows
  /\ NoValidCell(est.disparity_map)
  /\ result = [returned |-> "false", dX |-> Unassigned, dY |-> Unassigned]

NullLines == {"Average Sample Offset: NULL", "Average Line Offset: NULL"}

\* The positions of the row log that hold a NULL summary line.
NullSummary == {i \in DOMAIN out.lines : out.lines[i][1] \in NullLines}

\* C14 as stated: the NULL summary is written to the row log in no
\* execution; the abort on zero valid rows comes before the summary block.
C14_NullSummaryNeverWritten ==
  /\ NullSummary = {}
  /\ (opc = "returned" /\ result.returned = "false") =>
       \A i \in DOMAIN out.lines : out.lines[i][1] \in {"header", "row"}

\* C14, amended: the summary block is written, and the log closed, before
\* the test for zero valid rows.  The NULL summary is written exactly when
\* a row log was opened and no row has a valid cell; determineShifts then
\* fails with "no valid matches" after having written it.
C14_NullSummaryIffNoValidRow ==
  /\ (opc \in {"check", "returned"} /\ est.writeLogFile) =>
       /\ ~out.is_open
       /\ trace[Len(trace) - (IF opc = "check" THEN 0 ELSE 1)] = "close log"
       /\ NullSummary # {} <=> NoValidCell(est.disparity_map)
       /\ NoValidCell(est.disparity_map) =>
            /\ NullSummary = {Len(out.lines) - 1, Len(out.lines)}
            /\ opc = "returned" => result.returned = "false"
  /\ NullSummary # {} =>
       /\ opc \in {"check", "returned"}
       /\ est.writeLogFile
       /\ est.numValidRows = 0

C14_Witness ==
  /\ opc = "returned"
  /\ result.returned = "false"
  /\ trace[Len(trace)] = "printf Error: No valid pixel matches found!"
  /\ out.created
  /\ out.lines[Len(out.lines)] = <<"Average Line Offset: NULL", 0, Q(0), Q(0)>>

\* C15: when the row log cannot be opened, the failure is reported and only
\* the logging is given up: the rows are still accumulated and
\* determineShifts returns the global offset (or fails for lack of a valid
\* cell only).
C15_UnwritableLogOnlyStopsLogging ==
  (/\ opc = "returned"
   /\ params.leftExists /\ params.rightExists
   /\ params.rowLogFilePath # "" /\ ~params.openable) =>
    /\ \E i \in DOMAIN trace : trace[i] = "printf Failed to create output log file"
    /\ out.lines = <<>>
    /\ est.row = Len(est.disparity_map)
    /\ result.returned = "true" <=> ~NoValidCell(est.disparity_map)
    /\ result.returned = "true" =>
         (result.dX = Mean(est.stdCalcX) /\ result.dY = Mean(est.stdCalcY))

\* C16: when the left or the right input file does not exist,
\* determineShifts reports it and fails before any computation: no image is
\* loaded, the correlator is not invoked and no row log is created or
\* written.
C16_MissingInputFailsFirst ==
  ((~params.leftExists \/ ~params.rightExists) /\ opc # "start") =>
    /\ opc = "returned"
    /\ result = [returned |-> "false", dX |-> Unassigned, dY |-> Unassigned]
    /\ trace = <<"printf input file is missing">>
    /\ est = NoEst
    /\ out = NoStream

C16_Witness ==
  /\ opc = "returned"
  /\ params.leftExists
  /\ ~params.rightExists
  /\ params.rowLogFilePath # ""
  /\ params.openable
  /\ result.returned = "false"
  /\ ~out.created

\* The valid cells of the rows r, r + 1, ... of the map, in scan order.
RECURSIVE ValidFrom(_, _)
ValidFrom(map, r) ==
  IF r > Len(map) THEN <<>> ELSE ValidCells(map, r) \o ValidFrom(map, r + 1)

\* The sum of the component k (1 for dx, 2 for dy) of the cells.
RECURSIVE SumOf(_, _)
SumOf(cells, k) ==
  IF cells = <<>> THEN 0 ELSE cells[1][k] + SumOf(Tail(cells), k)

\* Component k summed over all valid cells, over their number.
SampleMean(map, k) == Norm(SumOf(ValidFrom(map, 1), k), Len(ValidFrom(map, 1)))

ValidRows(map) == {r \in DOMAIN map : ValidCells(map, r) # <<>>}

\* The mean of component k over the valid cells of row r.
RowMean(map, r, k) == Norm(SumOf(ValidCells(map, r), k), Len(ValidCells(map, r)))

RECURSIVE SumRowMeans(_, _, _)
SumRowMeans(map, r, k) ==
  IF r > Len(map) THEN Q(0)
  ELSE RAdd(IF r \in ValidRows(map) THEN RowMean(map, r, k) ELSE Q(0),
            SumRowMeans(map, r + 1, k))

\* The mean, over the rows with a valid cell, of their row means.
RowMeansMean(map, k) ==
  RDivInt(SumRowMeans(map, 1, k), Cardinality(ValidRows(map)))

\* All rows with a valid cell differ from each other in their number of
\* valid cells and in their row mean of component k.
RowsAllDiffer(map, k) ==
  /\ Cardinality(ValidRows(map)) >= 2
  /\ \A r, s \in ValidRows(map) :
       r # s => /\ Len(ValidCells(map, r)) # Len(ValidCells(map, s))
                /\ RowMean(map, r, k) # RowMean(map, s, k)

Succeeded == opc = "returned" /\ result.returned = "true"

\* C17 as stated: on success dX is the sum of dx over all valid cells over
\* their number, dY likewise; this is not the mean of the per-row means, and
\* the two differ whenever the rows have different numbers of valid cells
\* and different row means.
C17_DiffersWheneverRowsDiffer ==
  Succeeded =>
    /\ result.dX = SampleMean(est.disparity_map, 1)
    /\ result.dY = SampleMean(est.disparity_map, 2)
    /\ RowsAllDiffer(est.disparity_map, 1) =>
         result.dX # RowMeansMean(est.disparity_map, 1)
    /\ RowsAllDiffer(est.disparity_map, 2) =>
         result.dY # RowMeansMean(est.disparity_map, 2)

\* C17, amended: on success dX is the sum of dx over all valid cells over
\* their number, dY likewise: the mean over samples.  It differs from the
\* mean of the per-row means whenever exactly two rows have valid cells,
\* in different numbers and with different row means; with more rows the
\* two can coincide.
C17_OffsetIsMeanOverSamples ==
  Succeeded =>
    /\ result.dX = SampleMean(est.disparity_map, 1)
    /\ result.dY = SampleMean(est.disparity_map, 2)
    /\ (Cardinality(ValidRows(est.disparity_map)) = 2
          /\ RowsAllDiffer(est.disparity_map, 1)) =>
         result.dX # RowMeansMean(est.disparity_map, 1)
    /\ (Cardinality(ValidRows(est.disparity_map)) = 2
          /\ RowsAllDiffer(est.disparity_map, 2)) =>
         result.dY # RowMeansMean(est.disparity_map, 2)

C17_Witness ==
  /\ Succeeded
  /\ Cardinality(ValidRows(est.disparity_map)) = 2
  /\ RowsAllDiffer(est.disparity_map, 1)
  /\ result.dX = <<4, 3>>
  /\ RowMeansMean(est.disparity_map, 1) = <<3, 2>>

\* The lines of the row log between the header and the summary.
RowLines == SelectSeq(out.lines, LAMBDA l : l[1] = "row")

\* The mean of component k over the valid cells of row r, 0 without any.
RowMeanOrZero(map, r, k) ==
  IF ValidCells(map, r) = <<>> THEN Q(0) ELSE RowMean(map, r, k)

\* C18: once the loop has ended, the body of the row log holds for every
\* row r, in increasing order, exactly one line "r, rowMeanDx, rowMeanDy":
\* the second field is the mean of dx and the third the mean of dy over the
\* valid cells of the row, both 0 when the row has none.
C18_RowLineIsRowMeanDxThenDy ==
  (opc \in {"check", "returned"} /\ est.writeLogFile) =>
    /\ Len(RowLines) = Len(est.disparity_map)
    /\ \A i \in DOMAIN RowLines :
         RowLines[i] = <<"row", i - 1,
                         RowMeanOrZero(est.disparity_map, i, 1),
                         RowMeanOrZero(est.disparity_map, i, 2)>>

(***************************************************************************)
(* Further claims about the stages of a session, checked under SpecStages. *)
(***************************************************************************)
\* pre_filtering_hook has completed in process p.
Filtered(p) == stage = "filter" /\ pc[p] = "hook_done"

\* C19: with the mask_flatfield setting off, pre_filtering_hook is a pure
\* pass-through: its output is its input file and it reads and writes no
\* file.  With the setting on, its output is a different file holding the
\* masked disparity map, and the input disparity file is left as it was.
C19_FilterPassThroughOrMasked ==
  \A p \in Procs :
    Filtered(p) =>
      /\ ~mask_flatfield =>
           /\ io.output_file = io.input_file
           /\ log[p] = <<>>
           /\ files = startFiles[p]
      /\ mask_flatfield =>
           /\ io.output_file # io.input_file
           /\ files[io.input_file] = startFiles[p][io.input_file]
           /\ files[io.output_file][1] = "disp"
           /\ \A i \in 1..NumPix :
                LET before == files[io.input_file][2][i]
                    after == files[io.output_file][2][i]
                IN  /\ after \in {Blank, before}
                    /\ after = Blank <=>
                         \/ before = Blank
                         \/ files["lMaskDebug"][2][i] = 0
                         \/ files["rMaskDebug"][2][Idx(VAdd(Pix(i), before))] = 0

C19_Witness ==
  /\ Filtered(1)
  /\ mask_flatfield
  /\ io = [input_file |-> "D", output_file |-> "Rmasked"]
  /\ files["D"] = startFiles[1]["D"]
  /\ files["Rmasked"] # files["D"]
  /\ \E i \in 1..NumPix : files["Rmasked"][2][i] # Blank

\* pre_pointcloud_hook has written its output in process p.
Corrected(p) == stage = "pointcloud" /\ pc[p] = "hook_done"

\* C20: pre_pointcloud_hook undoes the alignment of pre_preprocessing_hook.
\* With T the persisted matrix, a valid vector d at pixel p becomes d' such
\* that p + d' is the pixel of the original second image that the aligned
\* second image shows at p + d; a vector whose target lies outside the
\* second image becomes invalid, an invalid one stays invalid, and with
\* T = identity the map is unchanged.
C20_PointCloudUndoesAlignment ==
  \A p \in Procs :
    (Corrected(p) /\ ~MapProjected /\ files["R"] # Absent) =>
      LET T == files["align"][2]
          before == files[io.input_file][2]
          after == files["Fcorrected"][2]
          aligned == files["R"][2]
      IN  /\ T = loc[p].align_matrix
          /\ \A i \in 1..NumPix :
               IF before[i] = Blank THEN after[i] = Blank
               ELSE LET shown == aligned[Idx(VAdd(Pix(i), before[i]))]
                    IN  IF shown = Blank THEN after[i] = Blank
                        ELSE /\ after[i] # Blank
                             /\ VAdd(Pix(i), after[i]) = shown
          /\ T = Identity => after = before

C20_Witness ==
  /\ Corrected(1)
  /\ files["align"] = <<"matrix", Translation(2, -1)>>
  /\ files["R"] = <<"tif", Warped(RightImage, Translation(2, -1))>>
  /\ \E i \in 1..NumPix :
       /\ files[io.input_file][2][i] = <<1, 0>>
       /\ files["Fcorrected"][2][i] = <<-1, 1>>
  /\ \E i \in 1..NumPix :
       /\ files[io.input_file][2][i] # Blank
       /\ files["Fcorrected"][2][i] = Blank

(***************************************************************************)
(* Claims about camera_model, checked under SpecCamera.                    *)
(***************************************************************************)
\* a and b are the same character up to the case of a letter
SameLetter(a, b) ==
  \/ a = b
  \/ \E k \in DOMAIN UpperLetters : {a, b} = {UpperLetters[k], LowerLetters[k]}

\* The name ends with ".isis_adjust" in any mixture of cases
EndsWithExtensionAnyCase(name) ==
  /\ Len(name) >= Len(AdjustExtension)
  /\ \A i \in 1..Len(AdjustExtension) :
       SameLetter(name[Len(name) - Len(AdjustExtension) + i], AdjustExtension[i])

\* C21: camera_model returns the adjusted model exactly when the camera
\* file name ends with ".isis_adjust" compared without regard to case, and
\* otherwise the standard model built from the image file alone, without
\* reading the descriptor.  For the adjusted model the first object of
\* the descriptor stream is read as the position equation, then the
\* second as the orientation equation, and the model is constructed from
\* (image file, position, orientation) in that order.
C21_AdjustedIffExtensionAnyCase ==
  /\ cam.pc = "read_posF" =>
       /\ cam.posF = cam.descriptor[1]
       /\ cam.poseF = NullEquation
  /\ cam.pc = "read_poseF" =>
       /\ cam.posF = cam.descriptor[1]
       /\ cam.poseF = cam.descriptor[2]
  /\ cam.pc = "returned" =>
       IF EndsWithExtensionAnyCase(cam.camera_file)
       THEN cam.model = [variant |-> "IsisAdjustCameraModel",
                         args |-> <<cam.image_file, cam.descriptor[1],
                                    cam.descriptor[2]>>]
       ELSE /\ cam.model = [variant |-> "IsisCameraModel",
                            args |-> <<cam.image_file>>]
            /\ cam.cursor = 0
            /\ cam.posF = NullEquation
            /\ cam.poseF = NullEquation

\* An adjusted model was returned for a name whose extension is not all in
\* lower case, from a descriptor whose two equations differ
C21_Witness ==
  /\ cam.pc = "returned"
  /\ cam.model.variant = "IsisAdjustCameraModel"
  /\ \E i \in DOMAIN cam.camera_file : cam.camera_file[i] \in {"I", "A", "T"}
  /\ cam.descriptor[1] # cam.descriptor[2]

(***************************************************************************)
(* Further claims about determineShifts and main, checked under SpecOffset *)
(***************************************************************************)
\* C22: whenever determineShifts has returned - because an input file is
\* missing, because the row log could not be opened, because no row has a
\* valid match, or with success - the stream of the row log is not open;
\* a log that was created has been closed by out.close() before the
\* return, and on the first two paths no log was ever created.
C22_RowLogClosedOnReturn ==
  /\ opc \in {"check", "returned"} =>
       /\ ~out.is_open
       /\ out.created => Has(trace, "close log")
  /\ opc = "returned" /\ ~InputsUsable => ~out.created

\* determineShifts returned true after it had created a row log
C22_Witness ==
  /\ opc = "returned"
  /\ result.returned = "true"
  /\ out.created
  /\ Len(out.lines) > 1

\* The messages determineShifts prints when it fails
FailureMessages ==
  { "printf input file is missing",
    "printf Failed to create output log file",
    "printf Error: No valid pixel matches found!" }

\* C23: main prints the lines "Mean sample offset" and "Mean line   offset"
\* exactly when determineShifts returned true, and then with the dX and dY
\* it computed; in every other run - missing arguments, a missing input
\* file, a row log that cannot be opened, no valid match - main prints no
\* offset, and a diagnostic has been issued.  Nothing is printed by main
\* before determineShifts has returned.
C23_OffsetsPrintedIffSucceeded ==
  /\ driver.pc # "exited" => driver.printed = <<>>
  /\ driver.pc = "exited" =>
       IF /\ driver.left
          /\ driver.right
          /\ InputsUsable
          /\ ~NoValidCell(est.disparity_map)
       THEN /\ result.returned = "true"
            /\ driver.printed =
                 << <<"Mean sample offset", SampleMean(est.disparity_map, 1)>>,
                    <<"Mean line   offset", SampleMean(est.disparity_map, 2)>> >>
       ELSE /\ result.returned # "true"
            /\ driver.printed = <<>>
            /\ \/ driver.error # ""
               \/ \E m \in FailureMessages : Has(trace, m)

\* main has printed two offsets that differ from each other
C23_Witness ==
  /\ driver.pc = "exited"
  /\ Len(driver.printed) = 2
  /\ driver.printed[1][2] # driver.printed[2][2]

\* The number of valid cells in rows 1..n of the map
RECURSIVE ValidUpTo(_, _)
ValidUpTo(map, n) ==
  IF n = 0 THEN 0 ELSE ValidUpTo(map, n - 1) + Len(ValidCells(map, n))

\* C27: once the accumulators are set up, and after each processed row,
\* stdCalcX and stdCalcY hold the same number of samples, which is
\* totalNumValidPixels and the number of valid cells in the rows processed
\* so far; numValidRows is the number of processed rows with at least one
\* valid cell; and numValidRows is 0 exactly when the accumulators are
\* empty.
C27_CountersAgreeAfterEachRow ==
  opc \in {"rows", "check"} \/ (opc = "returned" /\ InputsUsable) =>
    /\ est.stdCalcX.m_n = est.stdCalcY.m_n
    /\ est.stdCalcX.m_n = est.totalNumValidPixels
    /\ est.totalNumValidPixels = ValidUpTo(est.disparity_map, est.row)
    /\ est.numValidRows =
         Cardinality({r \in 1..est.row : ValidCells(est.disparity_map, r) # <<>>})
    /\ est.numValidRows = 0 <=> est.stdCalcX.m_n = 0

\* All rows are processed; one of them has no valid cell, another has
\* several
C27_Witness ==
  /\ opc = "rows"
  /\ est.row = Len(est.disparity_map)
  /\ est.numValidRows > 0
  /\ est.numValidRows < est.row
  /\ est.totalNumValidPixels > est.numValidRows

(***************************************************************************)
(* The claim about the crop window, checked under SpecCrop.                *)
(***************************************************************************)
\* C26: for every pair of image sizes and every value of cropWidth the
\* program accepts, the strip cut from each image starts at column
\* cols/2 - cropWidth/2 (cols the smaller of the two widths), is cropWidth
\* wide and rows high (rows the smaller of the two heights), is the same
\* window for both images, and lies inside both images: its start is not
\* negative, its end is not beyond either width, its height is not beyond
\* either height.
C26_StripInsideBothImages ==
  crop.pc = "cropped" =>
    /\ crop.leftCrop = crop.rightCrop
    /\ crop.leftCrop.x = IntDiv(Min(crop.left.cols, crop.right.cols), 2)
                           - IntDiv(crop.cropWidth, 2)
    /\ crop.leftCrop.y = 0
    /\ crop.leftCrop.width = crop.cropWidth
    /\ crop.leftCrop.height = Min(crop.left.rows, crop.right.rows)
    /\ crop.leftCrop.x >= 0
    /\ crop.leftCrop.x + crop.leftCrop.width <= crop.left.cols
    /\ crop.leftCrop.x + crop.leftCrop.width <= crop.right.cols
    /\ crop.leftCrop.height <= crop.left.rows
    /\ crop.leftCrop.height <= crop.right.rows

(***************************************************************************)
(* A further claim about the stages of a session, checked under SpecStages *)
(***************************************************************************)
\* C25: in a session that runs preprocess, filter and pointCloud in this
\* order, once pre_preprocessing_hook has completed (on the unprojected
\* path, the only one it takes), the matrix file holds a matrix and keeps
\* exactly the content preprocess left in it: neither the correlation nor
\* pre_filtering_hook nor pre_pointcloud_hook writes or deletes it.
\* pre_pointcloud_hook therefore finds the file and never exits, and the
\* matrix it loads is the matrix preprocess persisted.
C25_PersistedMatrixReachesPointCloud ==
  (Len(done) >= 1 /\ stage \in {"filter", "pointcloud", "finished"}) =>
    LET persisted == done[Len(done)].align
    IN  /\ persisted[1] = "matrix"
        /\ files["align"] = persisted
        /\ pc[1] # "exited"
        /\ ((stage = "pointcloud" /\ pc[1] # "idle") \/ stage = "finished") =>
             /\ log[1][1] = "read align"
             /\ loc[1].align_matrix = persisted[2]

\* The session has finished after preprocess estimated a matrix other than
\* the identity and pointCloud wrote its output
C25_Witness ==
  /\ stage = "finished"
  /\ Len(done) >= 1
  /\ done[Len(done)].keypoint
  /\ done[Len(done)].align = <<"matrix", Translation(2, -1)>>
  /\ loc[1].align_matrix = Translation(2, -1)
  /\ files["Fcorrected"] # Absent

(***************************************************************************)
(* The claim about concurrent calls, checked under SpecRace.               *)
(***************************************************************************)
\* Process p found neither the match file nor both .vwip files and ran the
\* detection itself
MissedBothTiers(p) ==
  /\ Has(log[p], "detect 1")
  /\ ~Has(log[p], "read match")

\* C24: the existence tests of the cache and the writes that follow them
\* are separate steps and nothing makes the creation of an artifact
\* exclusive: a call that found an artifact missing detects, describes,
\* matches and writes all three artifacts whatever another call has
\* written in the meantime - each of these steps can always be taken, even
\* when the file it creates exists already.  So two concurrent calls that
\* start from an empty cache can both miss, both compute and both write
\* the same .vwip and .match files.
C24_ArtifactCreationNotExclusive ==
  \A p \in Procs :
    /\ pc[p] = "detect" => ENABLED Detect(p)
    /\ pc[p] = "write_vwip1" => ENABLED WriteVwip1(p)
    /\ pc[p] = "write_vwip2" => ENABLED WriteVwip2(p)
    /\ pc[p] = "write_match" => ENABLED WriteMatch(p)
    /\ (MissedBothTiers(p) /\ pc[p] \in {"ransac", "write_align", "write_L",
                                          "write_R", "done"}) =>
         /\ Before(log[p], "detect 1", "write vwip1")
         /\ Before(log[p], "write vwip1", "write vwip2")
         /\ Before(log[p], "write vwip2", "matcher")
         /\ Before(log[p], "matcher", "write match")
         /\ Has(log[p], "write match")

\* Both calls started from the empty cache, both missed both tiers, both
\* ran the detection and the matcher, and both have written the two .vwip
\* files and the match file
C24_Witness ==
  /\ done = <<>>
  /\ \A p \in Procs :
       /\ pc[p] = "ransac"
       /\ \A f \in CacheFiles : startFiles[p][f] = Absent
       /\ MissedBothTiers(p)
       /\ Has(log[p], "write vwip1")
       /\ Has(log[p], "write vwip2")
       /\ Has(log[p], "matcher")
       /\ Has(log[p], "write match")
  /\ files["vwip1"] = <<"vwip", DetectOut(1)>>
  /\ files["vwip2"] = <<"vwip", DetectOut(2)>>
  /\ files["match"] = <<"match", Matcher(DetectOut(1), DetectOut(2))>>

====
